---------------------------- MODULE Spec2Model ----------------------------
(***************************************************************************)
(* State-machine model of the CG_Labs programs.                            *)
(*                                                                         *)
(* Lab_5 (src/Lab_5/app.py): the extruded letter, its transform chain,     *)
(* flat shading and painter's ordering.  Lab_4 (src/Lab_4/app.py): the     *)
(* clipping functions and the window that loads segments from a file.      *)
(* Lab_3 (src/Lab_3/app.py): the raster algorithms.  Lab_1                 *)
(* (src/Lab_1/app.py): the colour conversions and the window that keeps    *)
(* three colour models in step.                                            *)
(*                                                                         *)
(* Numbers.  Lengths are integers counted in tenths of a unit, so the      *)
(* contour point (5.2, 8.0) is <<52, 80>> and depth 1.2 is 12.  Angles are *)
(* kept on the quarter-turn grid and counted in quarter turns (1 = pi/2    *)
(* = 90 degrees), where math.cos and math.sin are -1, 0 or 1; arithmetic   *)
(* is that of the reals.  The construction-time angles 0.3, -0.8 and 0.6   *)
(* rad are off the grid and stand at the grid angles 0, -1 and 0.          *)
(* A unit normal (nx, ny, nz) / length is the record [num, sq]: the vector *)
(* num / sqrt(sq), kept in lowest terms.  The numbers of Lab_4, Lab_3 and  *)
(* Lab_1 are described at the head of their sections.                      *)
(***************************************************************************)
EXTENDS Integers, Sequences, FiniteSets, TLC

VARIABLES
    transform,    \* LetterApp.transform: [tx, ty, tz, rx, ry, rz, scale]
    cam_angle,    \* LetterApp.cam_angle
    base_verts,   \* LetterApp.base_verts
    faces,        \* LetterApp.faces
    canvas,       \* the polygons on LetterApp.canvas, in drawing order
    fn,           \* the function or handler last applied ("idle" before any)
    args,         \* its arguments
    ret,          \* its result
    frame,        \* the locals and position of a call that runs step by step
    updating,     \* ColorApp.updating
    state,        \* ColorApp.state: [r, g, b]
    controls,     \* ColorApp.controls: the text of every entry and the value
                  \* last set on every scale, by model and channel
    preview,      \* ColorApp: the text of hex_label (and colour of preview_box)
                  \* and the text of rgb_label
    events,       \* ColorApp: how many user events have been handled so far
    segments,     \* ClipApp.segments
    rect_vars,    \* ClipApp.rect_vars: [xmin, ymin, xmax, ymax]
    info,         \* ClipApp.info
    clip_canvas   \* what ClipApp has drawn on its canvas since the last clear

appVars == <<transform, cam_angle, base_verts, faces, canvas>>
fnVars == <<fn, args, ret>>
colorVars == <<updating, state, controls, preview, events>>
clipAppVars == <<segments, rect_vars, info, clip_canvas>>
vars ==
    <<transform, cam_angle, base_verts, faces, canvas, fn, args, ret, frame,
      updating, state, controls, preview, events, segments, rect_vars, info, clip_canvas>>

\* no call is running
NoFrame == [pc |-> "idle"]

\* no ColorApp and no ClipApp has been constructed
NoColorApp ==
    /\ updating = FALSE
    /\ state = <<>>
    /\ controls = <<>>
    /\ preview = <<>>
    /\ events = 0
NoClipApp ==
    /\ segments = <<>>
    /\ rect_vars = <<>>
    /\ info = ""
    /\ clip_canvas = <<>>

---------------------------------------------------------------------------
(* Bounds of the model.                                                    *)

\* coordinates of the vectors handed to rotate and normal: -MaxCoord..MaxCoord
MaxCoord == 1
\* extrusion depths handed to build_letter_r: 1..MaxDepth tenths
MaxDepth == 12
\* the translation sliders stand at 0 or at MaxTrans tenths
MaxTrans == 5
\* clip rectangles and segment endpoints of Lab_4 lie on the grid 0..MaxGrid
MaxGrid == 3
\* the vertices of the triangles handed to sutherland_hodgman: 0..MaxPoly
MaxPoly == 2
\* the endpoints of the lines of Lab_3 lie on the grid -MaxPix..MaxPix
MaxPix == 4
\* circle centres lie on the grid -MaxCentre..MaxCentre
MaxCentre == 1
\* circle radii: -1..MaxRadius
MaxRadius == 6

---------------------------------------------------------------------------
(* Arithmetic helpers.                                                     *)

Abs(x) == IF x < 0 THEN -x ELSE x

RECURSIVE Gcd(_, _)
Gcd(a, b) == IF b = 0 THEN a ELSE Gcd(b, a % b)

Gcd3(v) == Gcd(Gcd(Abs(v[1]), Abs(v[2])), Abs(v[3]))

\* a / b <= c / d for a, c >= 0 and b, d > 0, by continued fractions
\* (no product is formed, so nothing leaves the machine integers)
RECURSIVE FracLeq(_, _, _, _)
FracLeq(a, b, c, d) ==
    LET qa == a \div b
        qc == c \div d
        ra == a % b
        rc == c % d
    IN  IF qa # qc THEN qa < qc
        ELSE IF ra = 0 THEN TRUE
        ELSE IF rc = 0 THEN FALSE
        ELSE FracLeq(d, rc, b, ra)

\* math.cos and math.sin of q quarter turns
Cos(q) == CASE q % 4 = 0 -> 1 [] q % 4 = 1 -> 0 [] q % 4 = 2 -> -1 [] OTHER -> 0
Sin(q) == CASE q % 4 = 0 -> 0 [] q % 4 = 1 -> 1 [] q % 4 = 2 -> 0 [] OTHER -> -1

---------------------------------------------------------------------------
(* Vector primitives, src/Lab_5/app.py:10-51.                              *)

rotate_zyx(v, rx, ry, rz) ==
    LET cx == Cos(rx)  sx == Sin(rx)
        cy == Cos(ry)  sy == Sin(ry)
        cz == Cos(rz)  sz == Sin(rz)
        x1 == v[1] * cz - v[2] * sz
        y1 == v[1] * sz + v[2] * cz
        x2 == x1 * cy + v[3] * sy
        z2 == -x1 * sy + v[3] * cy
        y3 == y1 * cx - z2 * sx
        z3 == y1 * sx + z2 * cx
    IN  <<x2, y3, z3>>

rotate_sin_cos_swapped(v, rx, ry, rz) ==
    LET cx == Sin(rx)  sx == Cos(rx)
        cy == Cos(ry)  sy == Sin(ry)
        cz == Cos(rz)  sz == Sin(rz)
        y1 == v[2] * cx - v[3] * sx
        z1 == v[2] * sx + v[3] * cx
        x2 == v[1] * cy + z1 * sy
        z2 == -v[1] * sy + z1 * cy
        x3 == x2 * cz - y1 * sz
        y3 == x2 * sz + y1 * cz
    IN  <<x3, y3, z2>>

\* lines 10-20
rotate(v, rx, ry, rz) ==
    LET cx == Cos(rx)  sx == Sin(rx)
        cy == Cos(ry)  sy == Sin(ry)
        cz == Cos(rz)  sz == Sin(rz)
        y1 == v[2] * cx - v[3] * sx
        z1 == v[2] * sx + v[3] * cx
        x2 == v[1] * cy + z1 * sy
        z2 == -v[1] * sy + z1 * cy
        x3 == x2 * cz - y1 * sz
        y3 == x2 * sz + y1 * cz
    IN  <<x3, y3, z2>>

add(v, t) == <<v[1] + t[1], v[2] + t[2], v[3] + t[3]>>

scale(v, s) == <<v[1] * s, v[2] * s, v[3] * s>>

\* the cross product (b - a) x (c - a) of lines 32-34
Cross(a, b, c) ==
    LET ux == b[1] - a[1]  uy == b[2] - a[2]  uz == b[3] - a[3]
        vx == c[1] - a[1]  vy == c[2] - a[2]  vz == c[3] - a[3]
    IN  <<uy * vz - uz * vy, uz * vx - ux * vz, ux * vy - uy * vx>>

\* n / length with length = sqrt(n . n) or 1.0
Normalize(n) ==
    LET g == Gcd3(n)
    IN  IF g = 0
        THEN [num |-> n, sq |-> 1]
        ELSE LET m == <<n[1] \div g, n[2] \div g, n[3] \div g>>
             IN  [num |-> m, sq |-> m[1] * m[1] + m[2] * m[2] + m[3] * m[3]]

normal_fallback_z(a, b, c) ==
    LET n == Cross(a, b, c)
    IN  IF Gcd3(n) = 0 THEN [num |-> <<0, 0, 1>>, sq |-> 1] ELSE Normalize(n)

normal(a, b, c) == Normalize(Cross(a, b, c))

project(v, angle) ==
    LET ca == Cos(angle)
        sa == Sin(angle)
    IN  <<v[1] * ca + v[3] * sa, v[2], -v[1] * sa + v[3] * ca>>


\* the diffuse intensity max(0.2, min(1.0, n . light)) as [p, q, sq], the
\* number p / (q * sqrt(sq)); light is counted in tenths
IntensityUnclamped(n, light) ==
    [p |-> n.num[1] * light[1] + n.num[2] * light[2] + n.num[3] * light[3],
     q |-> 10, sq |-> n.sq]

Intensity(n, light) ==
    LET d == n.num[1] * light[1] + n.num[2] * light[2] + n.num[3] * light[3]
    IN  IF d > 0 /\ d * d >= 100 * n.sq THEN [p |-> 1, q |-> 1, sq |-> 1]
        ELSE IF d <= 0 \/ d * d <= 4 * n.sq THEN [p |-> 1, q |-> 5, sq |-> 1]
        ELSE [p |-> d, q |-> 10, sq |-> n.sq]

\* the largest k in lo..hi with k * q * sqrt(sq) <= x, for x > 0
RECURSIVE FloorSearch(_, _, _, _, _)
FloorSearch(lo, hi, x, q, sq) ==
    IF lo = hi THEN lo
    ELSE LET mid == (lo + hi + 1) \div 2
         IN  IF FracLeq(mid * q * sq, x, x, mid * q)
             THEN FloorSearch(mid, hi, x, q, sq)
             ELSE FloorSearch(lo, mid - 1, x, q, sq)

\* int(c * dot): truncation towards zero
IntTimes(c, dot) ==
    LET x == Abs(c * dot.p)
        k == IF x = 0 THEN 0
             ELSE IF dot.sq = 1 THEN x \div dot.q
             ELSE FloorSearch(0, x \div dot.q, x, dot.q, dot.sq)
    IN  IF c * dot.p < 0 THEN -k ELSE k

Min(a, b) == IF a <= b THEN a ELSE b

\* the channels r, g, b of line 50
ShadeChannels(color, n, light) ==
    [i \in 1..3 |-> Min(255, IntTimes(color[i], Intensity(n, light)))]

\* f"{c:02x}" for a channel in 0..255: its two hexadecimal digits
Hex2(c) == <<c \div 16, c % 16>>

\* f"#{r:02x}{g:02x}{b:02x}", as the six digits after the '#'
shade(color, n, light) ==
    LET ch == ShadeChannels(color, n, light)
    IN  Hex2(ch[1]) \o Hex2(ch[2]) \o Hex2(ch[3])

\* the default light of shade, (0.5, 0.7, 1.0)
DefaultLight == <<5, 7, 10>>

---------------------------------------------------------------------------
(* Mesh builder, src/Lab_5/app.py:54-102.  Vertex indices are those of the *)
(* code (from 0); the i-th vertex is verts[i + 1].                         *)

contour == <<<<0, 0>>, <<0, 80>>, <<52, 80>>, <<56, 72>>,
             <<56, 52>>, <<24, 52>>, <<56, 30>>, <<34, 0>>>>

inner == <<<<12, 69>>, <<12, 56>>, <<36, 56>>, <<36, 69>>>>

n_contour == Len(contour)

n_inner == Len(inner)

\* one ring of vertices at height z: the contour, then the cutout
Ring(z) ==
    [k \in 1..(n_contour + n_inner) |->
        IF k <= n_contour
        THEN <<contour[k][1], contour[k][2], z>>
        ELSE <<inner[k - n_contour][1], inner[k - n_contour][2], z>>]

BuildVerts(depth) == Ring(0) \o Ring(depth)

OuterSideFaceInnerOffset(i) ==
    LET a == i
        b == (i + 1) % n_contour
    IN  <<a, b, b + n_contour + n_inner + n_contour,
          a + n_contour + n_inner + n_contour>>

\* lines 82-85, for i in range(n_contour)
OuterSideFace(i) ==
    LET a == i
        b == (i + 1) % n_contour
    IN  <<a, b, b + n_contour, a + n_contour>>

\* lines 87-92, for i in range(n_inner)
InnerSideFace(i) ==
    LET a_front == n_contour + i
        b_front == n_contour + ((i + 1) % n_inner)
        a_back == n_contour + n_inner + n_contour + i
        b_back == n_contour + n_inner + n_contour + ((i + 1) % n_inner)
    IN  <<b_back, a_back, a_front, b_front>>

\* tuple(start + i for i in range(n))
IndexRange(start, n) == [k \in 1..n |-> start + k - 1]

\* lines 94-100
CapFaces ==
    LET back_start == n_contour + n_inner
        back_inner_start == back_start + n_contour
    IN  << IndexRange(0, n_contour),
           IndexRange(n_contour, n_inner),
           IndexRange(back_start, n_contour),
           IndexRange(back_inner_start, n_inner) >>

BuildFaces ==
    [k \in 1..n_contour |-> OuterSideFace(k - 1)]
    \o [k \in 1..n_inner |-> InnerSideFace(k - 1)]
    \o CapFaces

build_letter_r(depth) == [verts |-> BuildVerts(depth), faces |-> BuildFaces]

---------------------------------------------------------------------------
(* LetterApp, src/Lab_5/app.py:105-229.                                    *)

\* Transform(tx=0.0, ty=0.0, tz=0.0, rx=0.3, ry=-0.8, rz=0.0, scale=55.0),
\* its angles on the quarter-turn grid
InitScale == 55
InitTransform ==
    [tx |-> 0, ty |-> 0, tz |-> 0, rx |-> 0, ry |-> -1, rz |-> 0,
     scale |-> InitScale]

\* cam_angle = 0.6, on the quarter-turn grid
InitCam == 0

\* build_letter_r(depth=1.2)
AppDepth == 12

\* tk.Canvas(width=900, height=640), in pixels
CanvasWidth == 900
CanvasHeight == 640

\* base_color of render
base_color == <<228, 87, 46>>

RECURSIVE SeqMin(_)
SeqMin(s) ==
    IF Len(s) = 1 THEN s[1]
    ELSE LET m == SeqMin(Tail(s)) IN IF s[1] <= m THEN s[1] ELSE m

RECURSIVE SeqMax(_)
SeqMax(s) ==
    IF Len(s) = 1 THEN s[1]
    ELSE LET m == SeqMax(Tail(s)) IN IF s[1] >= m THEN s[1] ELSE m

center_model_from_min(verts) ==
    LET xs == [k \in 1..Len(verts) |-> verts[k][1]]
        ys == [k \in 1..Len(verts) |-> verts[k][2]]
        zs == [k \in 1..Len(verts) |-> verts[k][3]]
    IN  [k \in 1..Len(verts) |->
            <<verts[k][1] - SeqMin(xs), verts[k][2] - SeqMin(ys),
              verts[k][3] - SeqMin(zs)>>]

\* lines 131-138; the extents of the letter are even numbers of tenths, so
\* the midpoints are whole
center_model(verts) ==
    LET xs == [k \in 1..Len(verts) |-> verts[k][1]]
        ys == [k \in 1..Len(verts) |-> verts[k][2]]
        zs == [k \in 1..Len(verts) |-> verts[k][3]]
        cx == (SeqMin(xs) + SeqMax(xs)) \div 2
        cy == (SeqMin(ys) + SeqMax(ys)) \div 2
        cz == (SeqMin(zs) + SeqMax(zs)) \div 2
    IN  [k \in 1..Len(verts) |->
            <<verts[k][1] - cx, verts[k][2] - cy, verts[k][3] - cz>>]

transform_vertex_unscaled_shift(v, t, cam) ==
    project(add(rotate(scale(v, t.scale), t.rx, t.ry, t.rz),
                <<t.tx, t.ty, t.tz>>),
            cam)

\* lines 192-195, the body of the loop, for one vertex
transform_vertex(v, t, cam) ==
    project(add(rotate(scale(v, t.scale), t.rx, t.ry, t.rz),
                <<t.tx * t.scale, t.ty * t.scale, t.tz * t.scale>>),
            cam)

\* lines 190-197: verts.append(vv) for every v of base_verts, in order
RECURSIVE AppendTransformed(_, _, _, _)
AppendTransformed(verts, rest, t, cam) ==
    IF Len(rest) = 0 THEN verts
    ELSE AppendTransformed(Append(verts, transform_vertex(Head(rest), t, cam)),
                           Tail(rest), t, cam)

transform_vertices(bv, t, cam) == AppendTransformed(<<>>, bv, t, cam)

RECURSIVE SeqSum(_)
SeqSum(s) == IF Len(s) = 0 THEN 0 ELSE s[1] + SeqSum(Tail(s))

\* lines 209-211: (sum(zs) / len(zs), face), the mean kept as sum and count
DepthKey(verts, face) ==
    [sum |-> SeqSum([k \in 1..Len(face) |-> verts[face[k] + 1][3]]),
     len |-> Len(face), face |-> face]

\* mean of a > mean of b, mean of a >= mean of b
MeanGt(a, b) == a.sum * b.len > b.sum * a.len
MeanGeq(a, b) == a.sum * b.len >= b.sum * a.len

\* list.sort(key=mean, reverse=True): descending and stable
RECURSIVE SortDesc(_)
SortDesc(keyed) ==
    IF Len(keyed) = 0 THEN <<>>
    ELSE LET n == Len(keyed)
             x == keyed[n]
             front == SortDesc(SubSeq(keyed, 1, n - 1))
         IN  SelectSeq(front, LAMBDA e : MeanGeq(e, x)) \o <<x>>
             \o SelectSeq(front, LAMBDA e : ~MeanGeq(e, x))

\* an ascending stable sort, reversed: equal means come out in reverse order
RECURSIVE SortAscReversed(_)
SortAscReversed(keyed) ==
    IF Len(keyed) = 0 THEN <<>>
    ELSE LET n == Len(keyed)
             x == keyed[n]
             front == SortAscReversed(SubSeq(keyed, 1, n - 1))
         IN  SelectSeq(front, LAMBDA e : MeanGt(e, x)) \o <<x>>
             \o SelectSeq(front, LAMBDA e : ~MeanGt(e, x))

depth_sort_ties_reversed(verts, fs) ==
    LET sorted == SortAscReversed([k \in 1..Len(fs) |-> DepthKey(verts, fs[k])])
    IN  [k \in 1..Len(sorted) |-> sorted[k].face]

\* lines 207-212
depth_sort(verts, fs) ==
    LET sorted == SortDesc([k \in 1..Len(fs) |-> DepthKey(verts, fs[k])])
    IN  [k \in 1..Len(sorted) |-> sorted[k].face]

\* lines 221-224
FaceNormal(verts, face) ==
    IF Len(face) >= 3
    THEN normal(verts[face[1] + 1], verts[face[2] + 1], verts[face[3] + 1])
    ELSE [num |-> <<0, 0, 1>>, sq |-> 1]

\* lines 216-229: one create_polygon call; w and h are those of the canvas
DrawFace(verts, nverts, face) ==
    LET cx == (10 * CanvasWidth) \div 2
        cy == (10 * CanvasHeight) \div 2
    IN  [face |-> face,
         coords |-> [k \in 1..Len(face) |->
                        <<cx + verts[face[k] + 1][1], cy - verts[face[k] + 1][2]>>],
         fill |-> shade(base_color, FaceNormal(nverts, face), DefaultLight)]

\* lines 215-229: the drawing loop over faces_sorted
RECURSIVE DrawAll(_, _, _, _)
DrawAll(items, verts, nverts, order) ==
    IF Len(order) = 0 THEN items
    ELSE DrawAll(Append(items, DrawFace(verts, nverts, Head(order))),
                 verts, nverts, Tail(order))

DrawSorted(verts, nverts, fs) == DrawAll(<<>>, verts, nverts, depth_sort(verts, fs))

render_model_space_normals(bv, fs, t, cam) ==
    DrawSorted(transform_vertices(bv, t, cam), transform_vertices(bv, t, 0), fs)

\* lines 199-229: the canvas after delete("all") and the drawing loop
render(bv, fs, t, cam) ==
    DrawSorted(transform_vertices(bv, t, cam), transform_vertices(bv, t, cam), fs)

\* the sliders of lines 155-161 and 164: the positions the model moves them to
Attrs == {"tx", "ty", "tz", "rx", "ry", "rz", "scale"}
Angles == {"rx", "ry", "rz"}
SliderScaleFrom == 10
SliderValues(attr) ==
    IF attr \in Angles THEN {-90, 0, 90}
    ELSE IF attr = "scale" THEN {SliderScaleFrom, InitScale}
    ELSE {0, MaxTrans}
CamValues == {-1, 0, 1}

\* math.radians, from degrees to quarter turns
Radians(deg) == deg \div 90

\* __init__, lines 117-129
Init ==
    /\ transform = InitTransform
    /\ cam_angle = InitCam
    /\ base_verts = center_model(build_letter_r(AppDepth).verts)
    /\ faces = build_letter_r(AppDepth).faces
    /\ canvas = render(center_model(build_letter_r(AppDepth).verts),
                       build_letter_r(AppDepth).faces, InitTransform, InitCam)
    /\ fn = "idle"
    /\ args = <<>>
    /\ ret = <<>>
    /\ frame = NoFrame
    /\ NoColorApp
    /\ NoClipApp

\* _update_attr, lines 170-181 (the slider's text label is not part of the state)
update_attr(attr, value) ==
    LET v == IF attr \in Angles THEN Radians(value) ELSE value
    IN  /\ transform' = [transform EXCEPT ![attr] = v]
        /\ canvas' = render(base_verts, faces, transform', cam_angle)
        /\ UNCHANGED <<cam_angle, base_verts, faces, fn, args, ret, frame, colorVars, clipAppVars>>

camera_changed_without_render(angle) ==
    /\ cam_angle' = angle
    /\ UNCHANGED <<transform, base_verts, faces, canvas, fn, args, ret, frame, colorVars, clipAppVars>>

\* the camera slider, line 164-165: the variable is set, then render runs
camera_changed(angle) ==
    /\ cam_angle' = angle
    /\ canvas' = render(base_verts, faces, transform, angle)
    /\ UNCHANGED <<transform, base_verts, faces, fn, args, ret, frame, colorVars, clipAppVars>>

reset_rebuilds_mesh ==
    /\ transform' = InitTransform
    /\ cam_angle' = InitCam
    /\ base_verts' = build_letter_r(AppDepth).verts
    /\ canvas' = render(base_verts', faces, InitTransform, InitCam)
    /\ UNCHANGED <<faces, fn, args, ret, frame, colorVars, clipAppVars>>

\* reset, lines 183-186
reset ==
    /\ transform' = InitTransform
    /\ cam_angle' = InitCam
    /\ canvas' = render(base_verts, faces, InitTransform, InitCam)
    /\ UNCHANGED <<base_verts, faces, fn, args, ret, frame, colorVars, clipAppVars>>

Next ==
    \/ \E attr \in Attrs : \E value \in SliderValues(attr) : update_attr(attr, value)
    \/ \E angle \in CamValues : camera_changed(angle)
    \/ reset

Spec == Init /\ [][Next]_vars

---------------------------------------------------------------------------
(* The library functions of Lab_5 applied on their own: one call from the  *)
(* idle state, on arguments drawn from bounded sets.                       *)

Coords == -MaxCoord..MaxCoord
Vecs == {<<x, y, z>> : x \in Coords, y \in Coords, z \in Coords}
Diagonal == {<<x, x, x>> : x \in Coords}
QuarterTurns == -2..2
\* vectors handed to shade as n: unit normals and plain vectors
ShadeNormals == {Normalize(v) : v \in Vecs} \cup {[num |-> v, sq |-> 1] : v \in Vecs}
Colors == {base_color, <<0, 0, 0>>, <<255, 255, 255>>, <<1, 128, 254>>}
Lights == {DefaultLight, <<0, 0, 0>>, <<-5, -7, -10>>, <<10, 0, 0>>, <<0, 3, 0>>}

NoTransform ==
    [tx |-> 0, ty |-> 0, tz |-> 0, rx |-> 0, ry |-> 0, rz |-> 0, scale |-> 0]

InitLib ==
    /\ transform = NoTransform
    /\ cam_angle = 0
    /\ base_verts = <<>>
    /\ faces = <<>>
    /\ canvas = <<>>
    /\ fn = "idle"
    /\ args = <<>>
    /\ ret = <<>>
    /\ frame = NoFrame
    /\ NoColorApp
    /\ NoClipApp

ApplyRotate ==
    /\ fn = "idle"
    /\ \E v \in Vecs : \E rx \in QuarterTurns : \E ry \in QuarterTurns :
       \E rz \in QuarterTurns :
          /\ fn' = "rotate"
          /\ args' = <<v, rx, ry, rz>>
          /\ ret' = rotate(v, rx, ry, rz)
    /\ UNCHANGED <<appVars, frame, colorVars, clipAppVars>>

ApplyNormal ==
    /\ fn = "idle"
    /\ \E a \in Diagonal : \E b \in Vecs : \E c \in Vecs :
          /\ fn' = "normal"
          /\ args' = <<a, b, c>>
          /\ ret' = normal(a, b, c)
    /\ UNCHANGED <<appVars, frame, colorVars, clipAppVars>>

\* the result keeps the intensity and the channels shade computes on the way
ApplyShade ==
    /\ fn = "idle"
    /\ \E color \in Colors : \E n \in ShadeNormals : \E light \in Lights :
          /\ fn' = "shade"
          /\ args' = <<color, n, light>>
          /\ ret' = [dot |-> Intensity(n, light),
                     channels |-> ShadeChannels(color, n, light),
                     fill |-> shade(color, n, light)]
    /\ UNCHANGED <<appVars, frame, colorVars, clipAppVars>>

ApplyBuild ==
    /\ fn = "idle"
    /\ \E depth \in 1..MaxDepth :
          /\ fn' = "build_letter_r"
          /\ args' = <<depth>>
          /\ ret' = build_letter_r(depth)
    /\ UNCHANGED <<appVars, frame, colorVars, clipAppVars>>

\* a vertex list in half units, so that every bounding-box midpoint is whole
Halves(verts) ==
    [k \in 1..Len(verts) |-> <<2 * verts[k][1], 2 * verts[k][2], 2 * verts[k][3]>>]

\* the meshes handed to _center_model: the letter at every depth, and the
\* lists of one and of two points
CenterInputs ==
    {Halves(build_letter_r(depth).verts) : depth \in 1..MaxDepth}
    \cup {Halves(<<a>>) : a \in Vecs}
    \cup {Halves(<<a, b>>) : a \in Vecs, b \in Vecs}

\* _center_model called once, and called again on its own result
ApplyCenter ==
    /\ fn = "idle"
    /\ \E verts \in CenterInputs :
          /\ fn' = "center_model"
          /\ args' = <<verts>>
          /\ ret' = [once |-> center_model(verts),
                     twice |-> center_model(center_model(verts))]
    /\ UNCHANGED <<appVars, frame, colorVars, clipAppVars>>

NextLib == ApplyRotate \/ ApplyNormal \/ ApplyShade \/ ApplyBuild \/ ApplyCenter

SpecLib == InitLib /\ [][NextLib]_vars

---------------------------------------------------------------------------
(* Properties of the vector primitives and of the mesh builder, checked    *)
(* under SpecLib.                                                          *)

Zero3 == <<0, 0, 0>>
Dot3(u, v) == u[1] * v[1] + u[2] * v[2] + u[3] * v[3]
Collinear(a, b, c) == Cross(a, b, c) = Zero3

\* C1 (as stated): normal(a, b, c) is exactly (0, 0, 1) whenever a, b, c are
\* collinear, and never the zero vector.
C1_FallbackIsUnitZ ==
    (fn = "normal" /\ Collinear(args[1], args[2], args[3]))
        => ret = [num |-> <<0, 0, 1>>, sq |-> 1]

\* C1 (amended): when a, b, c are collinear the length falls back to 1.0 and
\* normal returns the cross product itself, the zero vector (0, 0, 0);
\* otherwise the result has unit length.
C1_CollinearGivesZeroVector ==
    fn = "normal" =>
        IF Collinear(args[1], args[2], args[3])
        THEN ret = [num |-> Zero3, sq |-> 1]
        ELSE ret.sq > 0 /\ Dot3(ret.num, ret.num) = ret.sq

\* normal was applied to three distinct collinear points
C1_Witness ==
    /\ fn = "normal"
    /\ Collinear(args[1], args[2], args[3])
    /\ args[1] # args[2] /\ args[2] # args[3] /\ args[1] # args[3]
    /\ ret.num = Zero3

\* C8: rotate(v, rx, ry, rz) is the X rotation, then the Y rotation of that
\* result, then the Z rotation of that result.
C8_RotateComposesXYZ ==
    fn = "rotate" =>
        ret = rotate(rotate(rotate(args[1], args[2], 0, 0), 0, args[3], 0),
                     0, 0, args[4])

\* rotate was applied with three quarter turns on a vector for which the
\* order of the axes matters
C8_Witness ==
    /\ fn = "rotate"
    /\ args[2] % 4 # 0 /\ args[3] % 4 # 0 /\ args[4] % 4 # 0
    /\ ret # rotate(rotate(rotate(args[1], 0, 0, args[4]), 0, args[3], 0),
                    args[2], 0, 0)

\* C9: rotate(v, 0, 0, 0) = v for every vector v.
C9_RotateZeroIsIdentity ==
    (fn = "rotate" /\ args[2] = 0 /\ args[3] = 0 /\ args[4] = 0) => ret = args[1]

\* rotate was applied with all angles zero to a vector off every axis
C9_Witness ==
    /\ fn = "rotate"
    /\ args[2] = 0 /\ args[3] = 0 /\ args[4] = 0
    /\ args[1][1] # 0 /\ args[1][2] # 0 /\ args[1][3] # 0
    /\ ret = args[1]

\* p / (q * sqrt(sq)) lies in [0.2, 1.0]
InUnitFifth(d) ==
    /\ d.q > 0 /\ d.sq > 0
    /\ d.p > 0 /\ 25 * d.p * d.p >= d.q * d.q * d.sq
    /\ d.p * d.p <= d.q * d.q * d.sq

\* C10: in shade the diffuse intensity lies in [0.2, 1.0] and, for a base
\* colour with channels in 0..255, every output channel is an integer in
\* 0..255.
C10_ShadeClamped ==
    (fn = "shade" /\ \A i \in 1..3 : args[1][i] \in 0..255)
        => /\ InUnitFifth(ret.dot)
           /\ \A i \in 1..3 : ret.channels[i] \in 0..255

\* shade was applied where the raw dot product is below 0.2, where it is
\* above 1.0 and where it lies between: one state for each
C10_WitnessLow ==
    /\ fn = "shade"
    /\ Dot3(args[2].num, args[3]) < 0
    /\ ret.dot = [p |-> 1, q |-> 5, sq |-> 1]
    /\ ret.channels = <<45, 17, 9>>

C10_Witness ==
    /\ fn = "shade"
    /\ args[1] = base_color
    /\ ret.dot.sq > 1
    /\ ret.dot.p * ret.dot.p < 100 * ret.dot.sq
    /\ ret.channels[1] > 45 /\ ret.channels[1] < 228

\* C7: the mesh has n_outer + n_inner + 4 faces and 2 * (n_outer + n_inner)
\* vertices, and every index of every face is a valid vertex index.
C7_MeshCounts ==
    fn = "build_letter_r" =>
        /\ Len(ret.faces) = n_contour + n_inner + 4
        /\ Len(ret.verts) = 2 * (n_contour + n_inner)
        /\ \A k \in 1..Len(ret.faces) : \A j \in 1..Len(ret.faces[k]) :
              ret.faces[k][j] >= 0 /\ ret.faces[k][j] < Len(ret.verts)

\* the mesh was built with the depth of the application: 16 faces on 24
\* vertices, the last of them used
C7_Witness ==
    /\ fn = "build_letter_r"
    /\ args[1] = AppDepth
    /\ Len(ret.faces) = 16 /\ Len(ret.verts) = 24
    /\ \E k \in 1..Len(ret.faces) : \E j \in 1..Len(ret.faces[k]) :
          ret.faces[k][j] = 23

\* twice the signed area of a closed 2D contour (positive: counter-clockwise)
RECURSIVE Shoelace(_, _)
Shoelace(poly, k) ==
    IF k > Len(poly) THEN 0
    ELSE LET p == poly[k]
             q == poly[(k % Len(poly)) + 1]
         IN  p[1] * q[2] - q[1] * p[2] + Shoelace(poly, k + 1)

\* the side of edge i (from 0) of a contour on which its inside does not lie
LeftOf(poly, i) ==
    LET p == poly[i + 1]
        q == poly[((i + 1) % Len(poly)) + 1]
    IN  <<-(q[2] - p[2]), q[1] - p[1], 0>>
AwayFromInside(poly, i) ==
    LET l == LeftOf(poly, i)
    IN  IF Shoelace(poly, 1) < 0 THEN l ELSE <<-l[1], -l[2], 0>>

\* the direction that leaves the material at face k (from 1) of the mesh:
\* away from the outer contour's inside, into the cutout's inside, towards
\* -z on the front caps and +z on the back caps
OutwardOf(k) ==
    IF k <= n_contour THEN AwayFromInside(contour, k - 1)
    ELSE IF k <= n_contour + n_inner
    THEN LET a == AwayFromInside(inner, k - n_contour - 1)
         IN  <<-a[1], -a[2], 0>>
    ELSE IF k <= n_contour + n_inner + 2 THEN <<0, 0, -1>>
    ELSE <<0, 0, 1>>

FaceCross(verts, face) ==
    Cross(verts[face[1] + 1], verts[face[2] + 1], verts[face[3] + 1])

\* C3: for every face of build_letter_r the cross product of its first two
\* edges, on the untransformed vertices, points outward from the solid.
C3_AllFacesOutward ==
    fn = "build_letter_r" =>
        \A k \in 1..Len(ret.faces) :
            Dot3(FaceCross(ret.verts, ret.faces[k]), OutwardOf(k)) > 0

\* s is t read from some starting point round the cycle
IsRotation(s, t) ==
    /\ Len(s) = Len(t)
    /\ \E d \in 0..(Len(s) - 1) :
          \A k \in 1..Len(s) : s[k] = t[((k - 1 + d) % Len(t)) + 1]

Reverse(s) == [k \in 1..Len(s) |-> s[Len(s) + 1 - k]]

\* the outer-contour rule (front_i, front_i+1, back_i+1, back_i) on edge i
\* of the cutout
OuterRuleOnInner(i) ==
    LET front == n_contour
        back == n_contour + n_inner + n_contour
        j == (i + 1) % n_inner
    IN  <<front + i, front + j, back + j, back + i>>

\* C4: on every edge of the inner contour the quad's cyclic vertex order is
\* the reverse of the outer-contour rule, and its normal points into the
\* cavity.
C4_InnerFacesReversed ==
    fn = "build_letter_r" =>
        \A i \in 0..(n_inner - 1) :
            LET face == ret.faces[n_contour + i + 1]
            IN  /\ IsRotation(face, Reverse(OuterRuleOnInner(i)))
                /\ Dot3(FaceCross(ret.verts, face), OutwardOf(n_contour + i + 1)) > 0

---------------------------------------------------------------------------
(* Properties of LetterApp, checked under Spec.                            *)

\* the vertices after scale, rotate and translate, before project
Unprojected ==
    [k \in 1..Len(base_verts) |->
        add(rotate(scale(base_verts[k], transform.scale),
                   transform.rx, transform.ry, transform.rz),
            <<transform.tx * transform.scale, transform.ty * transform.scale,
              transform.tz * transform.scale>>)]

\* a normal turned about the Y axis by the camera angle
CameraTurned(n) == [num |-> project(n.num, cam_angle), sq |-> n.sq]

\* C2 (as stated): the normal that shades a face is that of its first three
\* vertices before the camera projection, so the camera angle never changes
\* a face's fill.
C2_NormalBeforeProjection ==
    \A k \in 1..Len(canvas) :
        canvas[k].fill =
            shade(base_color, FaceNormal(Unprojected, canvas[k].face), DefaultLight)

\* C2 (amended): the normal that shades a face is that of its first three
\* vertices after the camera projection: the normal before projection turned
\* about the Y axis by the camera angle.
C2_NormalAfterProjection ==
    \A k \in 1..Len(canvas) :
        canvas[k].fill =
            shade(base_color,
                  CameraTurned(FaceNormal(Unprojected, canvas[k].face)),
                  DefaultLight)

\* the camera is turned and some face is filled with another colour than
\* its normal before projection gives
C2_Witness ==
    /\ cam_angle # 0
    /\ Len(canvas) = Len(faces)
    /\ \E k \in 1..Len(canvas) :
          canvas[k].fill #
              shade(base_color, FaceNormal(Unprojected, canvas[k].face), DefaultLight)

\* the place of face f in the mesh's face list
IndexOf(f) == CHOOSE k \in 1..Len(faces) : faces[k] = f

\* the depth keys of the drawn faces, in drawing order
DrawnKeys ==
    LET tv == transform_vertices(base_verts, transform, cam_angle)
    IN  [k \in 1..Len(canvas) |-> DepthKey(tv, canvas[k].face)]

\* C5: the faces are drawn in descending order of mean projected depth, and
\* faces of equal mean depth in their order in the mesh's face list.
C5_PaintersOrder ==
    /\ Len(canvas) = Len(faces)
    /\ \A k \in 1..Len(faces) : \E j \in 1..Len(canvas) : canvas[j].face = faces[k]
    /\ \E keys \in {DrawnKeys} :
          \A i \in 1..Len(canvas) : \A j \in (i + 1)..Len(canvas) :
              /\ MeanGeq(keys[i], keys[j])
              /\ MeanGeq(keys[j], keys[i])
                    => IndexOf(keys[i].face) < IndexOf(keys[j].face)

\* a frame in which the sort moved a face in front of one that precedes it in
\* the mesh, and in which two faces of equal mean depth were drawn
C5_Witness ==
    /\ Len(canvas) = Len(faces)
    /\ \E keys \in {DrawnKeys} :
          /\ \E i \in 1..Len(canvas) : \E j \in (i + 1)..Len(canvas) :
                /\ MeanGt(keys[i], keys[j])
                /\ IndexOf(keys[i].face) > IndexOf(keys[j].face)
          /\ \E i \in 1..Len(canvas) : \E j \in (i + 1)..Len(canvas) :
                /\ MeanGeq(keys[j], keys[i])
                /\ IndexOf(keys[i].face) + 1 < IndexOf(keys[j].face)

\* C6: transform_vertices maps every base vertex v, in order, to
\* project(rotate(scale(v, s), rx, ry, rz) + (tx*s, ty*s, tz*s), cameraAngle);
\* with zero rotation and camera angle 0 that is s * (v + t).  The polygons
\* on the canvas are placed at these vertices.
C6_TransformChain ==
    \E tv \in {transform_vertices(base_verts, transform, cam_angle)} :
        LET s == transform.scale
            shift == <<transform.tx * s, transform.ty * s, transform.tz * s>>
        IN  /\ Len(tv) = Len(base_verts)
            /\ \A k \in 1..Len(tv) :
                  /\ tv[k] = project(add(rotate(scale(base_verts[k], s), transform.rx,
                                                transform.ry, transform.rz), shift),
                                     cam_angle)
                  /\ (transform.rx = 0 /\ transform.ry = 0 /\ transform.rz = 0
                      /\ cam_angle = 0)
                        => tv[k] = <<s * (base_verts[k][1] + transform.tx),
                                     s * (base_verts[k][2] + transform.ty),
                                     s * (base_verts[k][3] + transform.tz)>>
            /\ \A k \in 1..Len(canvas) : \A j \in 1..Len(canvas[k].face) :
                  canvas[k].coords[j] =
                      <<(10 * CanvasWidth) \div 2 + tv[canvas[k].face[j] + 1][1],
                        (10 * CanvasHeight) \div 2 - tv[canvas[k].face[j] + 1][2]>>

\* a frame with no rotation, the camera at 0, a translation on every axis
\* and the initial scale
C6_Witness ==
    /\ transform.rx = 0 /\ transform.ry = 0 /\ transform.rz = 0 /\ cam_angle = 0
    /\ transform.tx # 0 /\ transform.ty # 0 /\ transform.tz # 0
    /\ transform.scale = InitScale
    /\ Len(canvas) = Len(faces)
    /\ canvas[1].coords[1] # <<(10 * CanvasWidth) \div 2, (10 * CanvasHeight) \div 2>>

---------------------------------------------------------------------------
(* Properties of the mesh held by LetterApp.                               *)

\* min + max of the bounding box on the three axes: twice its midpoint
BBoxMid2(verts) ==
    LET xs == [k \in 1..Len(verts) |-> verts[k][1]]
        ys == [k \in 1..Len(verts) |-> verts[k][2]]
        zs == [k \in 1..Len(verts) |-> verts[k][3]]
    IN  <<SeqMin(xs) + SeqMax(xs), SeqMin(ys) + SeqMax(ys),
          SeqMin(zs) + SeqMax(zs)>>

\* C11: after _center_model the midpoint of the axis-aligned bounding box of
\* the vertices is the origin on every axis, and a second call returns the
\* vertex list of the first call unchanged.
C11_CenterIdempotent ==
    fn = "center_model" =>
        /\ BBoxMid2(ret.once) = Zero3
        /\ ret.twice = ret.once

\* the letter of the application, off centre before the call, has been
\* centred and centred again
C11_Witness ==
    /\ fn = "center_model"
    /\ args[1] = Halves(build_letter_r(AppDepth).verts)
    /\ BBoxMid2(args[1]) # Zero3
    /\ ret.once # args[1]
    /\ ret.twice = ret.once

\* C12: after construction and the one initial centring, no slider change,
\* camera-angle change or reset (each with the render it ends with) modifies
\* the vertex list, its order or any face's index sequence.
C12_MeshNeverMutated ==
    [][base_verts' = base_verts /\ faces' = faces]_vars

\* sliders and camera have been moved, and the mesh is the centred letter of
\* construction
C12_Witness ==
    /\ transform.rx # InitTransform.rx
    /\ transform.scale # InitTransform.scale
    /\ transform.tx # InitTransform.tx
    /\ cam_angle # InitCam
    /\ base_verts = center_model(build_letter_r(AppDepth).verts)
    /\ faces = build_letter_r(AppDepth).faces

\* how many entries of s satisfy Test
Count(s, Test(_)) == Cardinality({k \in 1..Len(s) : Test(s[k])})

\* C13: every transform change, camera-angle change and reset ends with a
\* render, and render clears the canvas before drawing: the canvas always
\* holds exactly one polygon per mesh face, all of them computed from the
\* current transform and camera angle.
C13_CanvasIsCurrentFrame ==
    /\ canvas = render(base_verts, faces, transform, cam_angle)
    /\ Len(canvas) = Len(faces)
    /\ \A k \in 1..Len(faces) :
          Count(canvas, LAMBDA item : item.face = faces[k])
              = Count(faces, LAMBDA f : f = faces[k])

\* several events later the canvas holds a frame that differs from the one
\* drawn at construction
C13_Witness ==
    /\ transform.ry # InitTransform.ry
    /\ transform.scale # InitTransform.scale
    /\ cam_angle # InitCam
    /\ Len(canvas) = Len(faces)
    /\ canvas # render(base_verts, faces, InitTransform, InitCam)

---------------------------------------------------------------------------
(* Lab_4 (src/Lab_4/app.py): Liang-Barsky and Sutherland-Hodgman clipping. *)
(* Coordinates are rationals <<n, d>> = n / d with d > 0, in lowest terms; *)
(* a point is <<x, y>>, a rectangle <<xmin, ymin, xmax, ymax>> and a       *)
(* segment <<x0, y0, x1, y1>>.  Arithmetic is exact.                       *)

Rat(n, d) ==
    LET g == Gcd(Abs(n), Abs(d))
        sgn == IF d < 0 THEN -1 ELSE 1
    IN  <<(sgn * n) \div g, (sgn * d) \div g>>

RatOf(k) == <<k, 1>>
RatNeg(a) == <<-a[1], a[2]>>
RatAdd(a, b) == Rat(a[1] * b[2] + b[1] * a[2], a[2] * b[2])
RatSub(a, b) == RatAdd(a, RatNeg(b))
RatMul(a, b) == Rat(a[1] * b[1], a[2] * b[2])
RatDiv(a, b) == Rat(a[1] * b[2], a[2] * b[1])
RatLt(a, b) == a[1] * b[2] < b[1] * a[2]
RatLeq(a, b) == a[1] * b[2] <= b[1] * a[2]
RatMax(a, b) == IF RatLt(a, b) THEN b ELSE a
RatMin(a, b) == IF RatLt(b, a) THEN b ELSE a
RatZero == RatOf(0)
RatOne == RatOf(1)

\* the tuple of integers ks as a tuple of rationals
RatTuple(ks) == [k \in 1..Len(ks) |-> RatOf(ks[k])]

\* the return value None
None == <<>>

\* lines 21-32: the loop over zip(p, q), from its k-th pair on
RECURSIVE lb_loop(_, _, _, _, _)
lb_loop(p, q, k, u1, u2) ==
    IF k > 4 THEN <<u1, u2>>
    ELSE IF p[k] = RatZero
         THEN IF RatLt(q[k], RatZero) THEN None
              ELSE lb_loop(p, q, k + 1, u1, u2)
    ELSE LET t == RatDiv(RatNeg(q[k]), p[k])
             n1 == IF RatLt(p[k], RatZero) THEN RatMax(u1, t) ELSE u1
             n2 == IF RatLt(p[k], RatZero) THEN u2 ELSE RatMin(u2, t)
         IN  IF RatLt(n2, n1) THEN None
             ELSE lb_loop(p, q, k + 1, n1, n2)

\* lines 13-35
liang_barsky(rect, seg) ==
    LET xmin == rect[1]
        ymin == rect[2]
        xmax == rect[3]
        ymax == rect[4]
        x0 == seg[1]
        y0 == seg[2]
        x1 == seg[3]
        y1 == seg[4]
        dx == RatSub(x1, x0)
        dy == RatSub(y1, y0)
        p == <<RatNeg(dx), dx, RatNeg(dy), dy>>
        q == <<RatSub(x0, xmin), RatSub(xmax, x0),
               RatSub(y0, ymin), RatSub(ymax, y0)>>
        u == lb_loop(p, q, 1, RatZero, RatOne)
    IN  IF u = None THEN None
        ELSE <<RatAdd(x0, RatMul(u[1], dx)), RatAdd(y0, RatMul(u[1], dy)),
               RatAdd(x0, RatMul(u[2], dx)), RatAdd(y0, RatMul(u[2], dy))>>

\* lines 42-50
inside(p, edge, clip_rect) ==
    IF edge = "left" THEN RatLeq(clip_rect[1], p[1])
    ELSE IF edge = "right" THEN RatLeq(p[1], clip_rect[3])
    ELSE IF edge = "bottom" THEN RatLeq(clip_rect[2], p[2])
    ELSE RatLeq(p[2], clip_rect[4])

divisor_on_other_axis(p1, p2, edge) ==
    IF edge \in {"left", "right"} THEN RatSub(p2[2], p1[2])
    ELSE RatSub(p2[1], p1[1])

\* the divisor of lines 58 and 61
divisor(p1, p2, edge) ==
    IF edge \in {"left", "right"} THEN RatSub(p2[1], p1[1])
    ELSE RatSub(p2[2], p1[2])

intersect_returns_outside_point(p1, p2, edge, clip_rect) ==
    IF inside(p1, edge, clip_rect) THEN p2 ELSE p1

\* lines 52-62, where the divisor is not zero
intersect(p1, p2, edge, clip_rect) ==
    IF p1 = p2 THEN p1
    ELSE IF edge \in {"left", "right"}
         THEN LET x_edge == IF edge = "left" THEN clip_rect[1] ELSE clip_rect[3]
                  t == RatDiv(RatSub(x_edge, p1[1]), RatSub(p2[1], p1[1]))
              IN  <<x_edge, RatAdd(p1[2], RatMul(t, RatSub(p2[2], p1[2])))>>
    ELSE LET y_edge == IF edge = "bottom" THEN clip_rect[2] ELSE clip_rect[4]
             t == RatDiv(RatSub(y_edge, p1[2]), RatSub(p2[2], p1[2]))
         IN  <<RatAdd(p1[1], RatMul(t, RatSub(p2[1], p1[1]))), y_edge>>

\* a polygon returned, and the ZeroDivisionError of lines 58 and 61 raised
Returned(pts) == [raised |-> FALSE, pts |-> pts]
ZeroDivisionError == [raised |-> TRUE, pts |-> <<>>]

prev_of_unclosed(poly, i) == poly[IF i = 1 THEN 1 ELSE i - 1]

\* line 70: poly[i - 1], which for the first index is the last point
prev_of(poly, i) == poly[IF i = 1 THEN Len(poly) ELSE i - 1]

\* lines 68-76: the loop of clip from index i on
RECURSIVE clip_loop(_, _, _, _, _)
clip_loop(poly, edge, clip_rect, i, out) ==
    IF i > Len(poly) THEN Returned(out)
    ELSE LET cur == poly[i]
             prev == prev_of(poly, i)
             cur_in == inside(cur, edge, clip_rect)
             prev_in == inside(prev, edge, clip_rect)
         IN  IF cur_in = prev_in
             THEN clip_loop(poly, edge, clip_rect, i + 1,
                            IF cur_in THEN Append(out, cur) ELSE out)
             ELSE IF prev # cur /\ divisor(prev, cur, edge) = RatZero
                  THEN ZeroDivisionError
             ELSE LET x == intersect(prev, cur, edge, clip_rect)
                  IN  clip_loop(poly, edge, clip_rect, i + 1,
                                IF cur_in THEN Append(Append(out, x), cur)
                                ELSE Append(out, x))

\* lines 64-77
clip(poly, edge, clip_rect) ==
    IF Len(poly) = 0 THEN Returned(<<>>)
    ELSE clip_loop(poly, edge, clip_rect, 1, <<>>)

\* the order of the passes, line 80
Edges == <<"left", "right", "bottom", "top">>

\* lines 79-82: the passes from the k-th edge on
RECURSIVE clip_passes(_, _, _)
clip_passes(res, clip_rect, k) ==
    IF k > Len(Edges) THEN Returned(res)
    ELSE LET r == clip(res, Edges[k], clip_rect)
         IN  IF r.raised THEN r ELSE clip_passes(r.pts, clip_rect, k + 1)

\* lines 38-83
sutherland_hodgman(subject, clip_rect) == clip_passes(subject, clip_rect, 1)

---------------------------------------------------------------------------
(* The clipping functions of Lab_4 applied on their own: one call from the *)
(* idle state, on integer arguments drawn from bounded sets.               *)

Grid == 0..MaxGrid
\* rectangles with xmin <= xmax and ymin <= ymax, corners in S
RectsOver(S) == {r \in S \X S \X S \X S : r[1] <= r[3] /\ r[2] <= r[4]}

\* the two worked examples: (0,0)-(10,10) against (2,2,8,8) and
\* (-5,-5)-(-1,-1) against (0,0,10,10)
LBExamples ==
    {<<<<2, 2, 8, 8>>, <<0, 0, 10, 10>>>>,
     <<<<0, 0, 10, 10>>, <<-5, -5, -1, -1>>>>}
\* segments with ends on the grid, against the rectangles whose sides lie on
\* the border of the grid or one cell inside it
LBInputs ==
    (RectsOver({0, 1, MaxGrid - 1, MaxGrid}) \X (Grid \X Grid \X Grid \X Grid))
    \cup LBExamples

PolyGrid == 0..MaxPoly
PolyPoints == PolyGrid \X PolyGrid
\* axis-aligned boxes listed as (a,b), (c,b), (c,d), (a,d)
Boxes ==
    {<<<<r[1], r[2]>>, <<r[3], r[2]>>, <<r[3], r[4]>>, <<r[1], r[4]>>>> :
        r \in {q \in RectsOver(Grid) : q[1] < q[3] /\ q[2] < q[4]}}
\* the worked example: the square of side 10 against (2,2,8,8)
SHExamples ==
    {<<<<<<0, 0>>, <<10, 0>>, <<10, 10>>, <<0, 10>>>>, <<2, 2, 8, 8>>>>}
\* rectangles with xmin > xmax or ymin > ymax, corners in S
InvertedRectsOver(S) == {r \in S \X S \X S \X S : r[1] > r[3] \/ r[2] > r[4]}
\* the empty polygon, single points, triangles and boxes, against the
\* rectangles whose sides lie one cell inside the grid; triangles against
\* the inverted rectangles as well
SHInputs ==
    (({<<>>} \cup {<<a>> : a \in PolyPoints}
      \cup (PolyPoints \X PolyPoints \X PolyPoints) \cup Boxes)
     \X RectsOver({1, MaxGrid - 1}))
    \cup ((PolyPoints \X PolyPoints \X PolyPoints)
          \X InvertedRectsOver({1, MaxGrid - 1}))
    \cup SHExamples

\* a list of integer points as a list of rational points
RatPoints(pts) == [k \in 1..Len(pts) |-> RatTuple(pts[k])]

ApplyLiangBarsky ==
    /\ fn = "idle"
    /\ \E in \in LBInputs :
          /\ fn' = "liang_barsky"
          /\ args' = in
          /\ ret' = liang_barsky(RatTuple(in[1]), RatTuple(in[2]))
    /\ UNCHANGED <<appVars, frame, colorVars, clipAppVars>>

ApplySutherlandHodgman ==
    /\ fn = "idle"
    /\ \E in \in SHInputs :
          /\ fn' = "sutherland_hodgman"
          /\ args' = in
          /\ ret' = sutherland_hodgman(RatPoints(in[1]), RatTuple(in[2]))
    /\ UNCHANGED <<appVars, frame, colorVars, clipAppVars>>

NextClip == ApplyLiangBarsky \/ ApplySutherlandHodgman

SpecClip == InitLib /\ [][NextClip]_vars

---------------------------------------------------------------------------
(* Properties of the clipping functions, checked under SpecClip.           *)

InRect(pt, rect) ==
    /\ RatLeq(rect[1], pt[1]) /\ RatLeq(pt[1], rect[3])
    /\ RatLeq(rect[2], pt[2]) /\ RatLeq(pt[2], rect[4])

\* the point of the segment at parameter u
PointAt(seg, u) ==
    <<RatAdd(seg[1], RatMul(u, RatSub(seg[3], seg[1]))),
      RatAdd(seg[2], RatMul(u, RatSub(seg[4], seg[2])))>>

\* the parameters at which the segment can enter or leave the rectangle:
\* its ends and its crossings of the four lines of the rectangle
Crossings(rect, seg) ==
    {RatZero, RatOne}
    \cup {RatDiv(RatSub(rect[k], seg[1]), RatSub(seg[3], seg[1])) :
            k \in IF seg[3] = seg[1] THEN {} ELSE {1, 3}}
    \cup {RatDiv(RatSub(rect[k], seg[2]), RatSub(seg[4], seg[2])) :
            k \in IF seg[4] = seg[2] THEN {} ELSE {2, 4}}

\* some point of the segment lies in the closed rectangle
SegmentMeetsRect(rect, seg) ==
    \E u \in Crossings(rect, seg) :
        /\ RatLeq(RatZero, u) /\ RatLeq(u, RatOne)
        /\ InRect(PointAt(seg, u), rect)

\* pt lies on the segment
OnSegment(pt, seg) ==
    /\ RatMul(RatSub(pt[1], seg[1]), RatSub(seg[4], seg[2]))
          = RatMul(RatSub(pt[2], seg[2]), RatSub(seg[3], seg[1]))
    /\ RatLeq(RatMin(seg[1], seg[3]), pt[1]) /\ RatLeq(pt[1], RatMax(seg[1], seg[3]))
    /\ RatLeq(RatMin(seg[2], seg[4]), pt[2]) /\ RatLeq(pt[2], RatMax(seg[2], seg[4]))

\* C14: liang_barsky returns None exactly when no point of the segment lies
\* in the closed rectangle; otherwise it returns two endpoints that lie on
\* the segment and inside the closed rectangle.
C14_LiangBarskyClips ==
    fn = "liang_barsky" =>
        LET rect == RatTuple(args[1])
            seg == RatTuple(args[2])
        IN  /\ (ret = None) <=> ~SegmentMeetsRect(rect, seg)
            /\ ret # None =>
                  /\ OnSegment(<<ret[1], ret[2]>>, seg)
                  /\ OnSegment(<<ret[3], ret[4]>>, seg)
                  /\ InRect(<<ret[1], ret[2]>>, rect)
                  /\ InRect(<<ret[3], ret[4]>>, rect)

\* every subject vertex lies strictly outside the same edge of the rectangle
AllOutsideOneEdge(subject, rect) ==
    \E k \in 1..Len(Edges) :
        \A j \in 1..Len(subject) : ~inside(subject[j], Edges[k], rect)

\* the output of the left, right, bottom and top passes, each fed the
\* output of the pass before
FourPasses(subject, rect) ==
    clip(clip(clip(clip(subject, "left", rect).pts, "right", rect).pts,
              "bottom", rect).pts, "top", rect).pts

StrictlyContains(subject, rect) ==
    /\ Len(subject) = 4
    /\ subject[2] = <<subject[3][1], subject[1][2]>>
    /\ subject[4] = <<subject[1][1], subject[3][2]>>
    /\ subject[1][1] < rect[1] /\ rect[3] < subject[3][1]
    /\ subject[1][2] < rect[2] /\ rect[4] < subject[3][2]

Corners(rect) ==
    <<<<rect[1], rect[2]>>, <<rect[3], rect[2]>>,
      <<rect[3], rect[4]>>, <<rect[1], rect[4]>>>>

RECURSIVE pass_calls(_, _, _, _)
pass_calls(poly, edge, clip_rect, i) ==
    IF i > Len(poly) THEN <<>>
    ELSE LET cur == poly[i]
             prev == prev_of(poly, i)
             cur_in == inside(cur, edge, clip_rect)
             prev_in == inside(prev, edge, clip_rect)
         IN  (IF (cur_in /\ ~prev_in) \/ (~cur_in /\ prev_in)
              THEN <<<<prev, cur, edge>>>> ELSE <<>>)
             \o pass_calls(poly, edge, clip_rect, i + 1)

\* lines 79-82: the calls of intersect in the passes from the k-th edge on
RECURSIVE intersect_calls(_, _, _)
intersect_calls(res, clip_rect, k) ==
    IF k > Len(Edges) THEN <<>>
    ELSE LET r == clip(res, Edges[k], clip_rect)
         IN  pass_calls(res, Edges[k], clip_rect, 1)
             \o (IF r.raised THEN <<>>
                 ELSE intersect_calls(r.pts, clip_rect, k + 1))

\* C25: inside sutherland_hodgman, intersect is only called for a pair of
\* points of which exactly one is inside the current edge, so its divisor
\* (x2 - x1 for the left and right edges, y2 - y1 for the bottom and top
\* edges) is never zero and no ZeroDivisionError is raised, for every subject
\* polygon and every rectangle.
C25_DivisorNeverZero ==
    fn = "sutherland_hodgman" =>
        LET calls == intersect_calls(RatPoints(args[1]), RatTuple(args[2]), 1)
            rect == RatTuple(args[2])
        IN  /\ ~ret.raised
            /\ \A k \in 1..Len(calls) :
                  /\ inside(calls[k][1], calls[k][3], rect)
                        # inside(calls[k][2], calls[k][3], rect)
                  /\ divisor(calls[k][1], calls[k][2], calls[k][3]) # RatZero

\* intersect has been called, for the bottom or top edge, on two points with
\* the same x: the difference on the other axis is zero
C25_Witness ==
    /\ fn = "sutherland_hodgman"
    /\ ~ret.raised
    /\ LET calls == intersect_calls(RatPoints(args[1]), RatTuple(args[2]), 1)
       IN  \E k \in 1..Len(calls) :
              /\ calls[k][3] \in {"bottom", "top"}
              /\ calls[k][1][1] = calls[k][2][1]

---------------------------------------------------------------------------
(* Lab_3 (src/Lab_3/app.py): the raster algorithms.  Points are pairs of   *)
(* integers.  A sampled coordinate is kept as the exact quotient n / d;    *)
(* step_line rounds it as round() rounds the quotient itself (on the grid  *)
(* of the model the floating-point value it computes rounds the same way). *)

Max(a, b) == IF a >= b THEN a ELSE b

\* round(n / d) for d > 0: to the nearest integer, a half to the even one
PyRound(n, d) ==
    LET fl == n \div d
        twice == 2 * (n % d)
    IN  IF twice < d THEN fl
        ELSE IF twice > d THEN fl + 1
        ELSE IF fl % 2 = 0 THEN fl ELSE fl + 1

\* lines 22-23 and 38-40: pts.append unless the point repeats the last one
AppendNew(pts, pt) ==
    IF Len(pts) = 0 \/ pts[Len(pts)] # pt THEN Append(pts, pt) ELSE pts

\* lines 18-23: the loop for i in range(first, steps + 1)
RECURSIVE step_loop(_, _, _, _, _)
step_loop(p0, p1, steps, i, pts) ==
    IF i > steps THEN pts
    ELSE LET x == PyRound(p0[1] * steps + (p1[1] - p0[1]) * i, steps)
             y == PyRound(p0[2] * steps + (p1[2] - p0[2]) * i, steps)
         IN  step_loop(p0, p1, steps, i + 1, AppendNew(pts, <<x, y>>))

step_line_open_ended(p0, p1) ==
    LET steps == Max(Abs(p1[1] - p0[1]), Abs(p1[2] - p0[2]))
        pts == step_loop(p0, p1, steps, 0, <<>>)
    IN  IF steps = 0 THEN <<p0>>
        ELSE SubSeq(pts, 1, Len(pts) - 1)

\* lines 10-24
step_line(p0, p1) ==
    LET steps == Max(Abs(p1[1] - p0[1]), Abs(p1[2] - p0[2]))
    IN  IF steps = 0 THEN <<p0>>
        ELSE step_loop(p0, p1, steps, 0, <<>>)

RECURSIVE IsPowerOfTwo(_)
IsPowerOfTwo(k) == k = 1 \/ (k % 2 = 0 /\ IsPowerOfTwo(k \div 2))

\* round(x) of line 37 after i additions of the increment delta / steps to
\* c0.  An increment with a power of two as denominator is an exact float
\* and so is every sum; any other increment is a rounded float, the sum lies
\* within rounding error of the exact value, and where that value is a half
\* the sum can round to either neighbour.
FloatRounds(c0, delta, steps, i) ==
    LET n == c0 * steps + delta * i
    IN  IF 2 * (n % steps) = steps
           /\ ~IsPowerOfTwo(steps \div Gcd(Abs(delta), steps))
        THEN {n \div steps, (n \div steps) + 1}
        ELSE {PyRound(n, steps)}

\* lines 36-42: the loop from its i-th pass on; the set of lists it can build
RECURSIVE dda_loop(_, _, _, _, _)
dda_loop(p0, p1, steps, i, pts) ==
    IF i > steps THEN {pts}
    ELSE UNION {dda_loop(p0, p1, steps, i + 1, AppendNew(pts, <<px, py>>)) :
                  px \in FloatRounds(p0[1], p1[1] - p0[1], steps, i),
                  py \in FloatRounds(p0[2], p1[2] - p0[2], steps, i)}

\* lines 27-43: the lists dda_line can return
dda_line(p0, p1) ==
    LET steps == Max(Abs(p1[1] - p0[1]), Abs(p1[2] - p0[2]))
    IN  IF steps = 0 THEN {<<p0>>}
        ELSE dda_loop(p0, p1, steps, 0, <<>>)

\* lines 47-54: the locals of bresenham_line when the loop is entered
bresenham_enter(p0, p1) ==
    [x0 |-> p0[1], y0 |-> p0[2],
     err |-> Abs(p1[1] - p0[1]) - Abs(p1[2] - p0[2]),
     pts |-> <<>>, pc |-> "loop"]

bresenham_advance_break_before_append(f, p0, p1) ==
    LET dx == Abs(p1[1] - p0[1])
        dy == Abs(p1[2] - p0[2])
        sx == IF p0[1] < p1[1] THEN 1 ELSE -1
        sy == IF p0[2] < p1[2] THEN 1 ELSE -1
        e2 == 2 * f.err
        err1 == IF e2 > -dy THEN f.err - dy ELSE f.err
    IN  IF f.x0 = p1[1] /\ f.y0 = p1[2]
        THEN [f EXCEPT !.pc = "returned"]
        ELSE [x0 |-> IF e2 > -dy THEN f.x0 + sx ELSE f.x0,
              y0 |-> IF e2 < dx THEN f.y0 + sy ELSE f.y0,
              err |-> IF e2 < dx THEN err1 + dx ELSE err1,
              pts |-> Append(f.pts, <<f.x0, f.y0>>), pc |-> "loop"]

bresenham_advance_one_axis_per_pass(f, p0, p1) ==
    LET dx == Abs(p1[1] - p0[1])
        dy == Abs(p1[2] - p0[2])
        sx == IF p0[1] < p1[1] THEN 1 ELSE -1
        sy == IF p0[2] < p1[2] THEN 1 ELSE -1
        pts == Append(f.pts, <<f.x0, f.y0>>)
        e2 == 2 * f.err
    IN  IF f.x0 = p1[1] /\ f.y0 = p1[2]
        THEN [f EXCEPT !.pts = pts, !.pc = "returned"]
        ELSE IF e2 > -dy
             THEN [f EXCEPT !.x0 = f.x0 + sx, !.err = f.err - dy, !.pts = pts]
        ELSE IF e2 < dx
             THEN [f EXCEPT !.y0 = f.y0 + sy, !.err = f.err + dx, !.pts = pts]
        ELSE [f EXCEPT !.pts = pts]

\* lines 55-65: one pass of the while loop, from the locals f
bresenham_advance(f, p0, p1) ==
    LET dx == Abs(p1[1] - p0[1])
        dy == Abs(p1[2] - p0[2])
        sx == IF p0[1] < p1[1] THEN 1 ELSE -1
        sy == IF p0[2] < p1[2] THEN 1 ELSE -1
        pts == Append(f.pts, <<f.x0, f.y0>>)
        e2 == 2 * f.err
        err1 == IF e2 > -dy THEN f.err - dy ELSE f.err
    IN  IF f.x0 = p1[1] /\ f.y0 = p1[2]
        THEN [f EXCEPT !.pts = pts, !.pc = "returned"]
        ELSE [x0 |-> IF e2 > -dy THEN f.x0 + sx ELSE f.x0,
              y0 |-> IF e2 < dx THEN f.y0 + sy ELSE f.y0,
              err |-> IF e2 < dx THEN err1 + dx ELSE err1,
              pts |-> pts, pc |-> "loop"]

\* lines 77-89: the eight points plot appends
plot(cx, cy, px, py) ==
    <<<<cx + px, cy + py>>, <<cx - px, cy + py>>,
      <<cx + px, cy - py>>, <<cx - px, cy - py>>,
      <<cx + py, cy + px>>, <<cx - py, cy + px>>,
      <<cx + py, cy - px>>, <<cx - py, cy - px>>>>

\* lines 91-98: the while loop from the locals x, y, d on
RECURSIVE circle_loop(_, _, _, _, _)
circle_loop(center, x, y, d, pts) ==
    IF y < x THEN pts
    ELSE IF d < 0
         THEN circle_loop(center, x + 1, y, d + 4 * x + 6,
                          pts \o plot(center[1], center[2], x, y))
    ELSE circle_loop(center, x + 1, y - 1, d + 4 * (x - y) + 10,
                     pts \o plot(center[1], center[2], x, y))

uniq_keeps_all(pts) == pts

\* lines 99-105: the first occurrence of every point, in order
RECURSIVE uniq(_)
uniq(pts) ==
    IF Len(pts) = 0 THEN <<>>
    ELSE LET front == uniq(SubSeq(pts, 1, Len(pts) - 1))
             p == pts[Len(pts)]
         IN  IF \E k \in 1..Len(front) : front[k] = p THEN front
             ELSE Append(front, p)

\* lines 69-105
bresenham_circle(center, radius) ==
    uniq(circle_loop(center, 0, radius, 3 - 2 * radius, <<>>))

---------------------------------------------------------------------------
(* The raster algorithms of Lab_3 applied on their own.  step_line,        *)
(* dda_line and bresenham_circle are one call from the idle state;         *)
(* bresenham_line runs pass by pass of its while loop.                     *)

Pix == -MaxPix..MaxPix
\* the worked example (0,0) to (5,0), and a steep line off the grid
LineExamples == {<<<<0, 0>>, <<5, 0>>>>, <<<<2, 7>>, <<-1, -3>>>>}
LineInputs == ((Pix \X Pix) \X (Pix \X Pix)) \cup LineExamples
Centres == (-MaxCentre..MaxCentre) \X (-MaxCentre..MaxCentre)
Radii == -1..MaxRadius

ApplyStepLine ==
    /\ fn = "idle"
    /\ \E in \in LineInputs :
          /\ fn' = "step_line"
          /\ args' = in
          /\ ret' = step_line(in[1], in[2])
    /\ UNCHANGED <<appVars, frame, colorVars, clipAppVars>>

ApplyDdaLine ==
    /\ fn = "idle"
    /\ \E in \in LineInputs : \E pts \in dda_line(in[1], in[2]) :
          /\ fn' = "dda_line"
          /\ args' = in
          /\ ret' = pts
    /\ UNCHANGED <<appVars, frame, colorVars, clipAppVars>>

ApplyBresenhamCircle ==
    /\ fn = "idle"
    /\ \E center \in Centres : \E radius \in Radii :
          /\ fn' = "bresenham_circle"
          /\ args' = <<center, radius>>
          /\ ret' = bresenham_circle(center, radius)
    /\ UNCHANGED <<appVars, frame, colorVars, clipAppVars>>

\* bresenham_line is called: lines 47-54
CallBresenhamLine ==
    /\ fn = "idle"
    /\ \E in \in LineInputs :
          /\ fn' = "bresenham_line"
          /\ args' = in
          /\ frame' = bresenham_enter(in[1], in[2])
    /\ UNCHANGED <<appVars, ret, colorVars, clipAppVars>>

\* one pass of its loop, lines 55-65; the pass that breaks returns pts
StepBresenhamLine ==
    /\ fn = "bresenham_line"
    /\ frame.pc = "loop"
    /\ frame' = bresenham_advance(frame, args[1], args[2])
    /\ ret' = IF frame'.pc = "returned" THEN frame'.pts ELSE ret
    /\ UNCHANGED <<appVars, fn, args, colorVars, clipAppVars>>

NextRaster ==
    \/ ApplyStepLine
    \/ ApplyDdaLine
    \/ ApplyBresenhamCircle
    \/ CallBresenhamLine
    \/ StepBresenhamLine

\* the loop runs in the calling thread: a pass that can run does run
SpecRaster == InitLib /\ [][NextRaster]_vars /\ WF_vars(StepBresenhamLine)

---------------------------------------------------------------------------
(* Properties of the raster algorithms, checked under SpecRaster.          *)

\* C17: for every pair of integer points the loop of bresenham_line
\* terminates, and the returned list starts with p0 and ends with p1, which
\* occurs nowhere before the end.
C17_BresenhamTerminatesAtEndpoint ==
    (fn = "bresenham_line") ~>
        /\ frame.pc = "returned"
        /\ Len(ret) >= 1
        /\ ret[1] = args[1]
        /\ ret[Len(ret)] = args[2]
        /\ \A k \in 1..(Len(ret) - 1) : ret[k] # args[2]

\* a line that is neither axis-aligned nor diagonal has been returned
C17_Witness ==
    /\ fn = "bresenham_line"
    /\ frame.pc = "returned"
    /\ Abs(args[2][1] - args[1][1]) = 3
    /\ Abs(args[2][2] - args[1][2]) = 2
    /\ args[2][1] < args[1][1]
    /\ ret[1] = args[1]
    /\ ret[Len(ret)] = args[2]

NoRepeats(pts) == Cardinality({pts[k] : k \in 1..Len(pts)}) = Len(pts)

\* C18: bresenham_line returns exactly max(|dx|, |dy|) + 1 points, none
\* repeated, each consecutive pair differing by at most 1 in x and in y;
\* from (0,0) to (5,0) these are the six points (0,0) ... (5,0).
C18_BresenhamPointCount ==
    (fn = "bresenham_line" /\ frame.pc = "returned") =>
        /\ Len(ret) = Max(Abs(args[2][1] - args[1][1]),
                          Abs(args[2][2] - args[1][2])) + 1
        /\ NoRepeats(ret)
        /\ \A k \in 1..(Len(ret) - 1) :
              /\ Abs(ret[k + 1][1] - ret[k][1]) <= 1
              /\ Abs(ret[k + 1][2] - ret[k][2]) <= 1
        /\ args = <<<<0, 0>>, <<5, 0>>>> =>
              ret = <<<<0, 0>>, <<1, 0>>, <<2, 0>>, <<3, 0>>, <<4, 0>>, <<5, 0>>>>

\* the steep line from (2,7) to (-1,-3) has been returned in eleven points
C18_Witness ==
    /\ fn = "bresenham_line"
    /\ frame.pc = "returned"
    /\ args = <<<<2, 7>>, <<-1, -3>>>>
    /\ Len(ret) = 11
    /\ NoRepeats(ret)

\* the k >= 0 with k - 1/2 < sqrt(n) < k + 1/2: the distance sqrt(n) rounded
\* (the square root of an integer is never an odd number of halves)
RoundSqrt(n) ==
    CHOOSE k \in 0..(n + 1) :
        /\ 4 * n < (2 * k + 1) * (2 * k + 1)
        /\ k = 0 \/ (2 * k - 1) * (2 * k - 1) < 4 * n

\* the images of the offset (dx, dy) under the eight mirror symmetries
Mirrors(dx, dy) ==
    {<<sx * dx, sy * dy>> : sx \in {-1, 1}, sy \in {-1, 1}}
    \cup {<<sx * dy, sy * dx>> : sx \in {-1, 1}, sy \in {-1, 1}}

\* C19: for every integer centre and radius r >= 1, bresenham_circle returns
\* a list with no duplicate points, closed under the eight mirror symmetries
\* about the centre, every point at a distance d from the centre with
\* round(d) in {r - 1, r, r + 1}.
C19_CircleSymmetricNoDuplicates ==
    (fn = "bresenham_circle" /\ args[2] >= 1) =>
        LET c == args[1]
            r == args[2]
            pts == {ret[k] : k \in 1..Len(ret)}
        IN  /\ NoRepeats(ret)
            /\ \A p \in pts : \A m \in Mirrors(p[1] - c[1], p[2] - c[2]) :
                  <<c[1] + m[1], c[2] + m[2]>> \in pts
            /\ \A p \in pts :
                  RoundSqrt((p[1] - c[1]) * (p[1] - c[1])
                            + (p[2] - c[2]) * (p[2] - c[2])) \in {r - 1, r, r + 1}

\* the circle of radius 5 about the origin has been returned: 28 points,
\* (3,4) among them
C19_Witness ==
    /\ fn = "bresenham_circle"
    /\ args = <<<<0, 0>>, 5>>
    /\ Len(ret) = 28
    /\ \E k \in 1..Len(ret) : ret[k] = <<3, 4>>

\* C20: step_line and dda_line return exactly [p0] when p0 = p1; for any
\* other endpoints the result has no two equal consecutive points, starts
\* at p0 and ends at p1.
C20_LinesStartAndEnd ==
    fn \in {"step_line", "dda_line"} =>
        IF args[1] = args[2] THEN ret = <<args[1]>>
        ELSE /\ Len(ret) >= 2
             /\ ret[1] = args[1]
             /\ ret[Len(ret)] = args[2]
             /\ \A k \in 1..(Len(ret) - 1) : ret[k] # ret[k + 1]

\* dda_line has returned the line from (-4,-4) to (1,2), whose fourth sample
\* lies halfway between two pixels
C20_Witness ==
    /\ fn = "dda_line"
    /\ args = <<<<-4, -4>>, <<1, 2>>>>
    /\ ret = <<<<-4, -4>>, <<-3, -3>>, <<-2, -2>>, <<-1, -1>>, <<-1, 0>>,
               <<0, 1>>, <<1, 2>>>>


(***************************************************************************)
(* ClipApp (src/Lab_4/app.py): the window of Lab_4.  The rectangle         *)
(* variables and the segments hold exact rationals.  The texts of info     *)
(* are records: text names the message (the source's messages are Russian  *)
(* sentences), a and b are the numbers the message shows.  The time that   *)
(* clip_segments shows in its message is left out, and so are              *)
(* clip_polygon and the spin boxes of the grid.  The canvas is the         *)
(* list of the items drawn on it, in canvas coordinates; the grid, which   *)
(* depends only on the fixed cell size and grid size, is one item.  A text *)
(* file is a sequence of lines and a line a sequence of tokens: <<"int",   *)
(* k>> is the text of the integer k, <<"dec", k>> the text of k tenths     *)
(* with a decimal point, <<"bad", 0>> a text that is no number.            *)
(***************************************************************************)
InitCell == 28
InitCols == 24
InitRows == 18

InitRect == RatTuple(<<2, 2, 14, 10>>)

InitSegments ==
    <<RatTuple(<<0, 0, 18, 12>>), RatTuple(<<3, 15, 16, -1>>),
      RatTuple(<<5, 5, 5, 14>>), RatTuple(<<10, 0, 20, 12>>),
      RatTuple(<<12, 7, 4, 9>>)>>

Info(text, a, b) == [text |-> text, a |-> a, b |-> b]

\* "Готово."
Ready == Info("ready", 0, 0)

to_canvas(p) ==
    <<RatMul(p[1], RatOf(InitCell)),
      RatMul(RatSub(RatOf(InitRows), p[2]), RatOf(InitCell))>>

draw_grid == [item |-> "grid", coords |-> <<RatOf(InitCols), RatOf(InitRows)>>,
              color |-> "#d0d8e6", width |-> 1]

draw_rect(rect) ==
    [item |-> "rectangle",
     coords |-> to_canvas(<<rect[1], rect[2]>>) \o to_canvas(<<rect[3], rect[4]>>),
     color |-> "#1f77b4", width |-> 2]

RECURSIVE draw_segments(_, _, _)
draw_segments(segs, color, width) ==
    IF segs = <<>> THEN <<>>
    ELSE <<[item |-> "line",
            coords |-> to_canvas(<<Head(segs)[1], Head(segs)[2]>>)
                       \o to_canvas(<<Head(segs)[3], Head(segs)[4]>>),
            color |-> color, width |-> width]>>
         \o draw_segments(Tail(segs), color, width)

redraw(segs, rect) ==
    <<draw_grid, draw_rect(rect)>> \o draw_segments(segs, "#c0c6d4", 2)

\* the result of a conversion or of the body of the try statement
Raises(exc) == [raised |-> TRUE, exc |-> exc, val |-> <<>>]
Value(v) == [raised |-> FALSE, exc |-> "", val |-> v]

\* int(text) of a whole line
py_int(line) ==
    IF Len(line) = 1 /\ line[1][1] = "int" THEN Value(line[1][2])
    ELSE Raises("ValueError: invalid literal for int()")

\* float(text) of one token
py_float(tok) ==
    IF tok[1] = "int" THEN RatOf(tok[2]) ELSE Rat(tok[2], 10)

\* x1, y1, x2, y2 = map(float, line.split()): the tokens are converted one
\* by one as the unpacking asks for them, and it asks for at most five
unpack4(line) ==
    LET asked == IF Len(line) < 5 THEN Len(line) ELSE 5
    IN  IF \E k \in 1..asked : line[k][1] = "bad"
        THEN Raises("ValueError: could not convert string to float")
        ELSE IF Len(line) < 4
        THEN Raises("ValueError: not enough values to unpack")
        ELSE IF Len(line) > 4
        THEN Raises("ValueError: too many values to unpack")
        ELSE Value([k \in 1..4 |-> py_float(line[k])])

\* lines[start : stop] for start >= 0
py_slice(lines, start, stop) ==
    LET L == Len(lines)
        hi == IF stop < 0 THEN (IF stop + L < 0 THEN 0 ELSE stop + L)
              ELSE (IF stop > L THEN L ELSE stop)
    IN  IF start >= hi THEN <<>> ELSE SubSeq(lines, start + 1, hi)

\* lines[i]
py_index(lines, i) ==
    LET k == IF i < 0 THEN i + Len(lines) ELSE i
    IN  IF k < 0 \/ k >= Len(lines) THEN Raises("IndexError: list index out of range")
        ELSE Value(lines[k + 1])

\* lines = [l.strip() for l in f if l.strip()]
RECURSIVE non_blank(_)
non_blank(raw) ==
    IF raw = <<>> THEN <<>>
    ELSE (IF Head(raw) = <<>> THEN <<>> ELSE <<Head(raw)>>) \o non_blank(Tail(raw))

\* the loop over the segment lines
RECURSIVE segment_loop(_, _)
segment_loop(rest, segs) ==
    IF rest = <<>> THEN Value(segs)
    ELSE LET u == unpack4(Head(rest))
         IN  IF u.raised THEN u
             ELSE segment_loop(Tail(rest), Append(segs, u.val))

\* the statements of the try block before the first assignment to the
\* application: the value is <<segs, rectangle>>
parse_file(file) ==
    IF ~file.readable THEN Raises("OSError")
    ELSE LET lines == non_blank(file.lines)
             first == py_index(lines, 0)
         IN  IF first.raised THEN first
             ELSE LET n == py_int(first.val)
                  IN  IF n.raised THEN n
                      ELSE LET segs == segment_loop(py_slice(lines, 1, n.val + 1), <<>>)
                           IN  IF segs.raised THEN segs
                               ELSE LET line == py_index(lines, n.val + 1)
                                    IN  IF line.raised THEN line
                                        ELSE LET r == unpack4(line.val)
                                             IN  IF r.raised THEN r
                                                 ELSE Value(<<segs.val, r.val>>)

\* the segment lines converted before the conversion that failed
RECURSIVE converted_so_far(_)
converted_so_far(rest) ==
    IF rest = <<>> THEN <<>>
    ELSE LET u == unpack4(Head(rest))
         IN  IF u.raised THEN <<>> ELSE <<u.val>> \o converted_so_far(Tail(rest))

\* a handler that would assign each segment to the application as soon as
\* it is converted
segments_assigned_while_parsing(file, parsed, old) ==
    IF ~file.readable THEN old
    ELSE LET lines == non_blank(file.lines)
         IN  IF lines = <<>> \/ py_int(lines[1]).raised THEN old
             ELSE converted_so_far(py_slice(lines, 1, py_int(lines[1]).val + 1))

\* self.segments after the try statement
segments_after_load(file, parsed, old) ==
    IF parsed.raised THEN old ELSE parsed.val[1]

ClipAppInit ==
    /\ segments = InitSegments
    /\ rect_vars = InitRect
    /\ info = Ready
    /\ clip_canvas = redraw(InitSegments, InitRect)
    /\ fn = "__init__"
    /\ args = <<>>
    /\ ret = "done"

clear ==
    /\ info' = Ready
    /\ clip_canvas' = redraw(segments, rect_vars)
    /\ fn' = "clear"
    /\ args' = <<>>
    /\ ret' = "done"
    /\ UNCHANGED <<segments, rect_vars>>

RECURSIVE visible(_, _)
visible(segs, rect) ==
    IF segs = <<>> THEN <<>>
    ELSE LET res == liang_barsky(rect, Head(segs))
         IN  (IF res = None THEN <<>> ELSE <<res>>) \o visible(Tail(segs), rect)

clip_segments ==
    LET clipped == visible(segments, rect_vars)
    IN  /\ clip_canvas' = redraw(segments, rect_vars)
                          \o draw_segments(segments, "#c0c6d4", 2)
                          \o draw_segments(clipped, "#e4572e", 3)
        /\ info' = Info("segments, visible", Len(segments), Len(clipped))
        /\ fn' = "clip_segments"
        /\ args' = <<>>
        /\ ret' = "done"
        /\ UNCHANGED <<segments, rect_vars>>

\* the files the user may choose
MaxSegs == 2
GoodLine == <<<<"int", 0>>, <<"int", 0>>, <<"int", 3>>, <<"int", 3>>>>
OtherLine == <<<<"int", 1>>, <<"dec", 15>>, <<"int", 2>>, <<"dec", -5>>>>
BadLine == <<<<"int", 0>>, <<"bad", 0>>, <<"int", 3>>, <<"int", 3>>>>
BodyLines == {GoodLine, BadLine}
CountLines ==
    {<<<<"int", n>>>> : n \in -2..MaxSegs}
        \cup {<<<<"bad", 0>>>>, <<<<"dec", 15>>>>, <<<<"int", 1>>, <<"int", 1>>>>}

RECURSIVE Bodies(_)
Bodies(n) ==
    IF n = 0 THEN {<<>>}
    ELSE LET shorter == Bodies(n - 1)
         IN  shorter \cup {Append(b, l) : b \in {c \in shorter : Len(c) = n - 1},
                                          l \in BodyLines}

FileExamples ==
    {<<>>,
     <<<<<<"int", 2>>>>, OtherLine, GoodLine, OtherLine>>,
     <<<<<<"int", 1>>>>, <<>>, OtherLine, <<>>, GoodLine>>,
     <<<<<<"int", 1>>>>, SubSeq(GoodLine, 1, 3), GoodLine>>,
     <<<<<<"int", 1>>>>, GoodLine \o <<<<"int", 4>>>>, GoodLine>>,
     <<<<<<"int", 1>>>>, GoodLine \o <<<<"bad", 0>>>>, GoodLine>>,
     <<<<<<"int", 1>>>>, GoodLine \o <<<<"int", 4>>, <<"bad", 0>>>>, GoodLine>>,
     <<<<<<"int", 1>>>>, GoodLine, SubSeq(GoodLine, 1, 3)>>,
     <<<<<<"int", 0>>>>, OtherLine, BadLine>>}

Files ==
    {[path |-> "", readable |-> FALSE, lines |-> <<>>],
     [path |-> "missing.txt", readable |-> FALSE, lines |-> <<>>]}
        \cup {[path |-> "segments.txt", readable |-> TRUE, lines |-> ls] :
                 ls \in {<<c>> \o b : c \in CountLines, b \in Bodies(MaxSegs + 1)}
                            \cup FileExamples}

load_segments ==
    \E file \in Files :
        /\ fn' = "load_segments"
        /\ args' = file
        /\ IF file.path = ""
           THEN /\ ret' = "cancelled"
                /\ UNCHANGED clipAppVars
           ELSE LET parsed == parse_file(file)
                IN  /\ segments' = segments_after_load(file, parsed, segments)
                    /\ IF parsed.raised
                       THEN /\ ret' = "raised"
                            /\ info' = Info("read error: " \o parsed.exc, 0, 0)
                            /\ UNCHANGED <<rect_vars, clip_canvas>>
                       ELSE /\ ret' = "loaded"
                            /\ rect_vars' = parsed.val[2]
                            /\ clip_canvas' = redraw(parsed.val[1], parsed.val[2])
                            /\ info' = Info("segments loaded", Len(parsed.val[1]), 0)

InitClipApp ==
    /\ transform = NoTransform
    /\ cam_angle = 0
    /\ base_verts = <<>>
    /\ faces = <<>>
    /\ canvas = <<>>
    /\ frame = NoFrame
    /\ NoColorApp
    /\ ClipAppInit

NextClipApp ==
    \/ clear /\ UNCHANGED <<appVars, frame, colorVars>>
    \/ clip_segments /\ UNCHANGED <<appVars, frame, colorVars>>
    \/ load_segments /\ UNCHANGED <<appVars, frame, colorVars>>

SpecClipApp == InitClipApp /\ [][NextClipApp]_vars


(***************************************************************************)
(* The claim about ClipApp.load_segments.  What a file says is read off    *)
(* the file here line by line, for a count that is not negative: the       *)
(* first line that is not blank is the count n, the n lines after it are   *)
(* the segments and the line after those is the rectangle.                 *)
(***************************************************************************)
FourNumbers(line) == Len(line) = 4 /\ \A k \in 1..4 : line[k][1] # "bad"
NumbersOf(line) ==
    [k \in 1..4 |-> IF line[k][1] = "int" THEN <<line[k][2], 1>>
                    ELSE Rat(line[k][2], 10)]
TextLines(file) == SelectSeq(file.lines, LAMBDA l : l # <<>>)
IsCount(line) == Len(line) = 1 /\ line[1][1] = "int"
BadCount(file) ==
    TextLines(file) = <<>> \/ ~IsCount(TextLines(file)[1])
CountOf(file) == TextLines(file)[1][1][2]
BadSegmentLine(file) ==
    /\ ~BadCount(file)
    /\ CountOf(file) >= 0
    /\ \E k \in 1..CountOf(file) :
          k + 1 <= Len(TextLines(file)) /\ ~FourNumbers(TextLines(file)[k + 1])
MissingRectangle(file) ==
    /\ ~BadCount(file)
    /\ CountOf(file) >= 0
    /\ Len(TextLines(file)) < CountOf(file) + 2
BadRectangle(file) ==
    /\ ~BadCount(file)
    /\ CountOf(file) >= 0
    /\ Len(TextLines(file)) >= CountOf(file) + 2
    /\ ~FourNumbers(TextLines(file)[CountOf(file) + 2])
FileFails(file) ==
    \/ ~file.readable
    \/ BadCount(file)
    \/ BadSegmentLine(file)
    \/ MissingRectangle(file)
    \/ BadRectangle(file)

\* C24: load_segments is all-or-nothing.  When the chosen file cannot be
\* read, or its count, one of its segment lines or its rectangle line is
\* bad or missing, the segments, the four rectangle variables and the
\* drawing keep their values and info shows a read error; the segments or
\* the rectangle change only in a call that parsed the file to its
\* rectangle line, and then both are the file's.
C24_LoadAllOrNothing ==
    [][(fn' = "load_segments" /\ args'.path # "") =>
          /\ FileFails(args') =>
                /\ ret' = "raised"
                /\ segments' = segments
                /\ rect_vars' = rect_vars
                /\ clip_canvas' = clip_canvas
                /\ info'.a = 0 /\ info'.text # "ready"
          /\ (segments' # segments \/ rect_vars' # rect_vars) => ret' = "loaded"
          /\ (ret' = "loaded" /\ CountOf(args') >= 0) =>
                /\ ~FileFails(args')
                /\ Len(segments') = CountOf(args')
                /\ \A k \in 1..CountOf(args') :
                      segments'[k] = NumbersOf(TextLines(args')[k + 1])
                /\ rect_vars' = NumbersOf(TextLines(args')[CountOf(args') + 2])
                /\ info' = Info("segments loaded", CountOf(args'), 0)]_vars

\* a file with two good segment lines and a bad rectangle line was chosen
\* while segments loaded earlier were shown: they are still there
C24_Witness ==
    /\ fn = "load_segments"
    /\ ret = "raised"
    /\ BadRectangle(args)
    /\ CountOf(args) = 2
    /\ FourNumbers(TextLines(args)[2])
    /\ Len(segments) = 1
    /\ rect_vars = NumbersOf(GoodLine)
    /\ info = Info("read error: ValueError: could not convert string to float", 0, 0)


(***************************************************************************)
(* Lab_1 (src/Lab_1/app.py): the colour conversions.  A dictionary is a    *)
(* record with the same keys.  The numbers are exact rationals <<n, d>>;   *)
(* round is Python's (halves go to the even neighbour) and returns an      *)
(* integer.  A division raises ZeroDivisionError when its divisor is zero; *)
(* the result of rgb_to_cmyk says in raised whether one did.               *)
(*                                                                         *)
(* The source computes in binary floating point.  Its results differ from  *)
(* the exact ones by far less than the distance between two values that    *)
(* can occur here, so a rounding to a whole number or to one decimal can   *)
(* come out differently only when the exact value lies exactly half way;   *)
(* there the model allows both neighbours, unless the operands are binary  *)
(* fractions, which floating point holds exactly.  cmyk_to_rgb and         *)
(* hls_to_rgb are therefore the sets of their possible results.            *)
(***************************************************************************)
clamp(value, min_value, max_value) == RatMax(min_value, RatMin(max_value, value))

py_round(x) == PyRound(x[1], x[2])

\* round(n / d) computed in floating point: the possible results
float_round(n, d, exact) ==
    IF 2 * (n % d) = d /\ ~exact THEN {n \div d, (n \div d) + 1}
    ELSE {PyRound(n, d)}

\* a rational that floating point holds exactly
Dyadic(x) == IsPowerOfTwo(x[2])

Hundred == RatOf(100)

Cmyk(c, m, y, k) == [raised |-> FALSE, c |-> c, m |-> m, y |-> y, k |-> k]
CmykRaises == [raised |-> TRUE, c |-> RatZero, m |-> RatZero, y |-> RatZero, k |-> RatZero]

\* a version that returns k as a fraction of one
rgb_to_cmyk_k_as_fraction(r, g, b) ==
    LET r1 == Rat(r, 255)
        g1 == Rat(g, 255)
        b1 == Rat(b, 255)
        k == RatSub(RatOne, RatMax(r1, RatMax(g1, b1)))
        ink(v1) == RatMul(RatDiv(RatSub(RatSub(RatOne, v1), k), RatSub(RatOne, k)), Hundred)
    IN  IF k = RatOne THEN Cmyk(RatZero, RatZero, RatZero, RatOne)
        ELSE Cmyk(ink(r1), ink(g1), ink(b1), k)

rgb_to_cmyk(r, g, b) ==
    LET r1 == Rat(r, 255)
        g1 == Rat(g, 255)
        b1 == Rat(b, 255)
        k == RatSub(RatOne, RatMax(r1, RatMax(g1, b1)))
        ink(v1) == RatMul(RatDiv(RatSub(RatSub(RatOne, v1), k), RatSub(RatOne, k)), Hundred)
    IN  IF k = RatOne THEN Cmyk(RatZero, RatZero, RatZero, Hundred)
        ELSE IF RatSub(RatOne, k) = RatZero THEN CmykRaises
        ELSE Cmyk(ink(r1), ink(g1), ink(b1), RatMul(k, Hundred))

cmyk_to_rgb(c, m, y, k) ==
    LET c1 == RatDiv(clamp(c, RatZero, Hundred), Hundred)
        m1 == RatDiv(clamp(m, RatZero, Hundred), Hundred)
        y1 == RatDiv(clamp(y, RatZero, Hundred), Hundred)
        k1 == RatDiv(clamp(k, RatZero, Hundred), Hundred)
        light(v1) ==
            LET x == RatMul(RatMul(RatOf(255), RatSub(RatOne, v1)), RatSub(RatOne, k1))
            IN  float_round(x[1], x[2], Dyadic(v1) /\ Dyadic(k1))
    IN  {[r |-> red, g |-> green, b |-> blue] :
            red \in light(c1), green \in light(m1), blue \in light(y1)}

(***************************************************************************)
(* The conversions of Lab_1 applied on their own to channel values from    *)
(* both ends of 0..255 and to the channels of the colour the application   *)
(* starts with.                                                            *)
(***************************************************************************)
MaxChan == 2
ChanValues == (0..MaxChan) \cup ((255 - MaxChan)..255) \cup {86, 127, 217}

ApplyCmykRoundTrip ==
    /\ fn = "idle"
    /\ \E r \in ChanValues, g \in ChanValues, b \in ChanValues :
          LET cmyk == rgb_to_cmyk(r, g, b)
          IN  /\ fn' = "rgb_to_cmyk, cmyk_to_rgb"
              /\ args' = <<r, g, b>>
              /\ ret' = [cmyk |-> cmyk,
                         rgb |-> IF cmyk.raised THEN {}
                                 ELSE cmyk_to_rgb(cmyk.c, cmyk.m, cmyk.y, cmyk.k)]
    /\ UNCHANGED <<appVars, frame, colorVars, clipAppVars>>

NextColorLib == ApplyCmykRoundTrip

SpecColorLib == InitLib /\ [][NextColorLib]_vars

\* C23: for integers r, g, b in 0..255, rgb_to_cmyk divides by zero for
\* none of them, cmyk_to_rgb of its four components gives back exactly
\* r, g, b, and black gives c = m = y = 0 and k = 100.
C23_CmykRoundTrip ==
    fn = "rgb_to_cmyk, cmyk_to_rgb" =>
        /\ ~ret.cmyk.raised
        /\ ret.rgb = {[r |-> args[1], g |-> args[2], b |-> args[3]]}
        /\ args = <<0, 0, 0>> =>
              ret.cmyk = Cmyk(RatZero, RatZero, RatZero, Hundred)

\* the colour the application starts with has been taken there and back
C23_Witness ==
    /\ fn = "rgb_to_cmyk, cmyk_to_rgb"
    /\ args = <<127, 86, 217>>
    /\ ret.cmyk.k = Rat(3800, 255)
    /\ ret.rgb = {[r |-> 127, g |-> 86, b |-> 217]}


(***************************************************************************)
(* rgb_to_hls and hls_to_rgb of Lab_1.  rgb_to_hls works on exact          *)
(* rationals.  hls_to_rgb takes h, l and s as whole numbers of tenths,     *)
(* which is what every entry text and every scale of the application       *)
(* hands over, and computes in fixed point: h1 and t in units of 1/3600,   *)
(* l1 and s1 in units of 1/1000, p and q in units of 1/10^6 and the value  *)
(* of hue_to_rgb in units of 1/(6 * 10^8), so that no step rounds.         *)
(***************************************************************************)
RatAbs(a) == IF a[1] < 0 THEN RatNeg(a) ELSE a
RatFloor(a) == a[1] \div a[2]
\* a % m for an integer m > 0, as Python takes it
RatMod(a, m) == RatSub(a, RatOf(m * RatFloor(RatDiv(a, RatOf(m)))))

rgb_to_hls(r, g, b) ==
    LET r1 == Rat(r, 255)
        g1 == Rat(g, 255)
        b1 == Rat(b, 255)
        max_v == RatMax(r1, RatMax(g1, b1))
        min_v == RatMin(r1, RatMin(g1, b1))
        l == RatDiv(RatAdd(max_v, min_v), RatOf(2))
        d == RatSub(max_v, min_v)
        s == RatDiv(d, RatSub(RatOne, RatAbs(RatSub(RatMul(RatOf(2), l), RatOne))))
        h == IF max_v = r1
             THEN RatAdd(RatDiv(RatSub(g1, b1), d), RatOf(IF RatLt(g1, b1) THEN 6 ELSE 0))
             ELSE IF max_v = g1
             THEN RatAdd(RatDiv(RatSub(b1, r1), d), RatOf(2))
             ELSE RatAdd(RatDiv(RatSub(r1, g1), d), RatOf(4))
    IN  IF max_v = min_v
        THEN [h |-> RatZero, l |-> RatMul(l, Hundred), s |-> RatZero]
        ELSE [h |-> RatMod(RatMul(h, RatOf(60)), 360),
              l |-> RatMul(l, Hundred),
              s |-> RatMul(s, Hundred)]

\* clamp on whole numbers
clamp_int(value, min_value, max_value) ==
    IF value > max_value THEN (IF max_value < min_value THEN min_value ELSE max_value)
    ELSE IF value < min_value THEN min_value ELSE value

\* round(x * 255) for x given in units of 1/(6 * 10^8), computed in
\* floating point: the possible results.  255 / (6 * 10^8) = 17 / (4 * 10^7)
round_255(x) ==
    LET unit == 40000000
        rest == 17 * (x % unit)
        fl == 17 * (x \div unit) + (rest \div unit)
        twice == 2 * (rest % unit)
    IN  IF twice < unit THEN {fl}
        ELSE IF twice > unit THEN {fl + 1}
        ELSE {fl, fl + 1}

\* hue_to_rgb with p and q in units of 1/10^6 and t in units of 1/3600;
\* the value is in units of 1/(6 * 10^8)
hue_to_rgb(p, q, t) ==
    LET t1 == IF t < 0 THEN t + 3600 ELSE t
        t2 == IF t1 > 3600 THEN t1 - 3600 ELSE t1
    IN  IF t2 < 600 THEN 600 * p + (q - p) * t2
        ELSE IF t2 < 1800 THEN 600 * q
        ELSE IF t2 < 2400 THEN 600 * p + (q - p) * (2400 - t2)
        ELSE 600 * p

hls_to_rgb(h, l, s) ==
    LET h1 == ((h % 3600) + 3600) % 3600
        l1 == clamp_int(l, 0, 1000)
        s1 == clamp_int(s, 0, 1000)
        vals == float_round(l1 * 255, 1000, l1 % 125 = 0)
        q == IF l1 < 500 THEN l1 * (1000 + s1)
             ELSE 1000 * l1 + 1000 * s1 - l1 * s1
        p == 2000 * l1 - q
    IN  IF s1 = 0 THEN {[r |-> val, g |-> val, b |-> val] : val \in vals}
        ELSE {[r |-> red, g |-> green, b |-> blue] :
                 red \in round_255(hue_to_rgb(p, q, h1 + 1200)),
                 green \in round_255(hue_to_rgb(p, q, h1)),
                 blue \in round_255(hue_to_rgb(p, q, h1 - 1200))}

\* {"r": ..., "g": ..., "b": ...} of whole numbers as a dictionary of rationals
RatRgb(rgb) == [k \in DOMAIN rgb |-> RatOf(rgb[k])]

\* f"{v:02X}"
Hex2Upper(v) ==
    LET digit == <<"0", "1", "2", "3", "4", "5", "6", "7",
                   "8", "9", "A", "B", "C", "D", "E", "F">>
    IN  digit[(v \div 16) + 1] \o digit[(v % 16) + 1]

rgb_to_hex(rgb) == "#" \o Hex2Upper(rgb.r) \o Hex2Upper(rgb.g) \o Hex2Upper(rgb.b)


(***************************************************************************)
(* ColorApp (src/Lab_1/app.py): the window of Lab_1.  state is a           *)
(* dictionary of whole numbers.  controls[model][channel] holds the text   *)
(* of the entry and the value last handed to the scale.  A text is a       *)
(* record: kind "num" with the number it reads as, in tenths, kind "bad"   *)
(* for a text that is no number, kind "empty" for the empty text.  The     *)
(* values that the callbacks receive are whole numbers of tenths.          *)
(*                                                                         *)
(* update_from_rgb runs in steps, its position and its locals r, g, b in   *)
(* frame, so that the callbacks of the entries and scales, which Tk        *)
(* decides when to invoke, can arrive while it is in progress.  The        *)
(* command of the button runs from the event loop only, that is between    *)
(* two calls.  A user may type a new text into an entry before its         *)
(* callback arrives, but not while update_from_rgb is in progress.         *)
(***************************************************************************)
Num(t) == [kind |-> "num", tenths |-> t]
BadText == [kind |-> "bad", tenths |-> 0]
EmptyText == [kind |-> "empty", tenths |-> 0]

Channels == [rgb |-> <<"r", "g", "b">>, hls |-> <<"h", "l", "s">>,
             cmyk |-> <<"c", "m", "y", "k">>]
ModelKeys == {"rgb", "hls", "cmyk"}
ChannelsOf(model) == {Channels[model][k] : k \in 1..Len(Channels[model])}

\* f"{numeric:.1f}" if not numeric.is_integer() else f"{int(numeric)}"
\* the texts it can give
format_value(value) ==
    IF value[2] = 1 THEN {Num(10 * value[1])}
    ELSE {Num(t) : t \in float_round(10 * value[1], value[2], FALSE)}

\* the controls after set_channel(model, channel, value)
set_channel(ctl, model, channel, value) ==
    {[ctl EXCEPT ![model][channel] = [entry |-> text, scale |-> value]] :
        text \in format_value(value)}

\* the controls after set_channel for every channel of the model from
\* the k-th on
RECURSIVE set_channels(_, _, _, _)
set_channels(ctl, model, vals, k) ==
    IF k > Len(Channels[model]) THEN {ctl}
    ELSE UNION {set_channels(c, model, vals, k + 1) :
                   c \in set_channel(ctl, model, Channels[model][k],
                                     vals[Channels[model][k]])}

\* the controls as _build_ui leaves them: empty entries, scales at from_
BuiltControls ==
    [model \in ModelKeys |->
        [ch \in ChannelsOf(model) |-> [entry |-> EmptyText, scale |-> RatZero]]]

InitState == [r |-> 127, g |-> 86, b |-> 217]

\* line 196
state_from(rgb) == [k \in DOMAIN rgb |-> clamp_int(py_round(rgb[k]), 0, 255)]

\* lines 199-200, 202-204 and 206-208
rgb_controls(ctl, st) == set_channels(ctl, "rgb", RatRgb(st), 1)
hls_controls(ctl, r, g, b) == set_channels(ctl, "hls", rgb_to_hls(r, g, b), 1)
cmyk_controls(ctl, r, g, b) == set_channels(ctl, "cmyk", rgb_to_cmyk(r, g, b), 1)

\* lines 210-213
labels(st, r, g, b) == [hex |-> rgb_to_hex(st), rgb |-> <<r, g, b>>]

\* callbacks that would go on whatever updating says
never_ignores_event == FALSE

\* lines 164 and 174
ignores_event == updating

\* float(entry.get()) at line 168 and float(entry.get() or 0) at 184, 189
UnreadableEntry(text) == text.kind = "bad"
entry_or_0(text) == IF text.kind = "num" THEN text.tenths ELSE 0

\* route_update with the key of the channel in capitals
rgb_with_channel_in_capitals(channel, value) ==
    ((IF channel = "r" THEN "R" ELSE IF channel = "g" THEN "G" ELSE "B")
        :> Rat(clamp_int(value, 0, 2550), 10)) @@ RatRgb(state)

\* lines 180-181
rgb_with_channel(channel, value) ==
    (channel :> Rat(clamp_int(value, 0, 2550), 10)) @@ RatRgb(state)

\* the dictionaries route_update can hand to update_from_rgb; raised when
\* a float() of line 184 or 189 raises ValueError
route_update(ctl, model, channel, value) ==
    IF model = "rgb"
    THEN [raised |-> FALSE, rgb |-> {rgb_with_channel(channel, value)}]
    ELSE IF \E ch \in ChannelsOf(model) : UnreadableEntry(ctl[model][ch].entry)
    THEN [raised |-> TRUE, rgb |-> {}]
    ELSE LET vals == (channel :> value)
                     @@ [ch \in ChannelsOf(model) |-> entry_or_0(ctl[model][ch].entry)]
         IN  IF model = "hls"
             THEN [raised |-> FALSE,
                   rgb |-> {RatRgb(rgb) :
                               rgb \in hls_to_rgb(vals["h"], vals["l"], vals["s"])}]
             ELSE [raised |-> FALSE,
                   rgb |-> {RatRgb(rgb) :
                               rgb \in cmyk_to_rgb(Rat(vals["c"], 10), Rat(vals["m"], 10),
                                                   Rat(vals["y"], 10), Rat(vals["k"], 10))}]

ColorAppInit ==
    /\ updating = FALSE
    /\ state = state_from(RatRgb(InitState))
    /\ \E c1 \in rgb_controls(BuiltControls, InitState) :
          \E c2 \in hls_controls(c1, 127, 86, 217) :
             controls \in cmyk_controls(c2, 127, 86, 217)
    /\ preview = labels(InitState, 127, 86, 217)
    /\ events = 0
    /\ frame = NoFrame
    /\ fn = "__init__"
    /\ args = <<>>
    /\ ret = "returned"

\* lines 195-197 of update_from_rgb
update_begin(rgb) ==
    /\ updating' = TRUE
    /\ state' = state_from(rgb)
    /\ frame' = [pc |-> "rgb", r |-> state'.r, g |-> state'.g, b |-> state'.b]

\* the values and texts the user and Tk hand to the callbacks
MaxEvents == 2
ScaleValues ==
    [r |-> {0, 2550}, g |-> {2550}, b |-> {0}, h |-> {1205}, l |-> {500},
     s |-> {0, 1000}, c |-> {1000}, m |-> {500}, y |-> {0}, k |-> {0, 1000}]
TypedTexts ==
    [r |-> {Num(1275), Num(-10), Num(3000)}, g |-> {}, b |-> {},
     h |-> {Num(-300), Num(4000), BadText}, l |-> {EmptyText}, s |-> {},
     c |-> {}, m |-> {}, y |-> {}, k |-> {BadText, Num(1500)}]
PickedColors == {<<0, 0, 0>>, <<255, 128, 1>>}

handle_scale ==
    \E model \in ModelKeys :
      \E channel \in ChannelsOf(model) :
        \E value \in ScaleValues[channel] :
          /\ fn' = "handle_scale"
          /\ args' = <<model, channel>>
          /\ IF ignores_event
             THEN /\ ret' = "ignored"
                  /\ UNCHANGED <<updating, state, controls, preview, events, frame>>
             ELSE LET routed == route_update(controls, model, channel, value)
                  IN  /\ events < MaxEvents
                      /\ events' = events + 1
                      /\ UNCHANGED <<controls, preview>>
                      /\ IF routed.raised
                         THEN /\ ret' = "ValueError"
                              /\ UNCHANGED <<updating, state, frame>>
                         ELSE /\ ret' = "update_from_rgb"
                              /\ \E rgb \in routed.rgb : update_begin(rgb)

handle_entry ==
    \E model \in ModelKeys :
      \E channel \in ChannelsOf(model) :
        \E text \in TypedTexts[channel] \cup {controls[model][channel].entry} :
          /\ fn' = "handle_entry"
          /\ args' = <<model, channel>>
          /\ IF ignores_event
             THEN /\ text = controls[model][channel].entry
                  /\ ret' = "ignored"
                  /\ UNCHANGED <<updating, state, controls, preview, events, frame>>
             ELSE LET typed == [controls EXCEPT ![model][channel].entry = text]
                      routed == route_update(typed, model, channel, text.tenths)
                  IN  /\ frame.pc # "idle" => text = controls[model][channel].entry
                      /\ events < MaxEvents
                      /\ events' = events + 1
                      /\ controls' = typed
                      /\ UNCHANGED preview
                      /\ IF text.kind # "num" \/ routed.raised
                         THEN /\ ret' = "ValueError"
                              /\ UNCHANGED <<updating, state, frame>>
                         ELSE /\ ret' = "update_from_rgb"
                              /\ \E rgb \in routed.rgb : update_begin(rgb)

pick_color ==
    /\ frame.pc = "idle"
    /\ events < MaxEvents
    /\ events' = events + 1
    /\ fn' = "pick_color"
    /\ args' = <<>>
    /\ UNCHANGED <<controls, preview>>
    /\ \/ /\ ret' = "cancelled"
          /\ UNCHANGED <<updating, state, frame>>
       \/ \E result \in PickedColors :
             /\ ret' = "update_from_rgb"
             /\ update_begin(RatRgb([r |-> result[1], g |-> result[2], b |-> result[3]]))

\* lines 199-200, 202-204, 206-208 and 210-215 of update_from_rgb
update_rgb_controls ==
    /\ frame.pc = "rgb"
    /\ controls' \in rgb_controls(controls, state)
    /\ frame' = [frame EXCEPT !.pc = "hls"]
    /\ UNCHANGED <<updating, state, preview, events, fnVars>>

update_hls_controls ==
    /\ frame.pc = "hls"
    /\ controls' \in hls_controls(controls, frame.r, frame.g, frame.b)
    /\ frame' = [frame EXCEPT !.pc = "cmyk"]
    /\ UNCHANGED <<updating, state, preview, events, fnVars>>

update_cmyk_controls ==
    /\ frame.pc = "cmyk"
    /\ controls' \in cmyk_controls(controls, frame.r, frame.g, frame.b)
    /\ frame' = [frame EXCEPT !.pc = "labels"]
    /\ UNCHANGED <<updating, state, preview, events, fnVars>>

update_labels ==
    /\ frame.pc = "labels"
    /\ preview' = labels(state, frame.r, frame.g, frame.b)
    /\ updating' = FALSE
    /\ frame' = NoFrame
    /\ fn' = "update_from_rgb"
    /\ args' = <<>>
    /\ ret' = "returned"
    /\ UNCHANGED <<state, controls, events>>

InitColorApp ==
    /\ transform = NoTransform
    /\ cam_angle = 0
    /\ base_verts = <<>>
    /\ faces = <<>>
    /\ canvas = <<>>
    /\ NoClipApp
    /\ ColorAppInit

NextColorApp ==
    \/ handle_scale /\ UNCHANGED <<appVars, clipAppVars>>
    \/ handle_entry /\ UNCHANGED <<appVars, clipAppVars>>
    \/ pick_color /\ UNCHANGED <<appVars, clipAppVars>>
    \/ update_rgb_controls /\ UNCHANGED <<appVars, clipAppVars>>
    \/ update_hls_controls /\ UNCHANGED <<appVars, clipAppVars>>
    \/ update_cmyk_controls /\ UNCHANGED <<appVars, clipAppVars>>
    \/ update_labels /\ UNCHANGED <<appVars, clipAppVars>>

SpecColorApp == InitColorApp /\ [][NextColorApp]_vars

\* C21: in ColorApp, after construction and after any route_update and
\* pick_color calls, state has exactly the keys r, g, b and each is a whole
\* number in 0..255.
C21_StateIsRgbBytes ==
    /\ DOMAIN state = {"r", "g", "b"}
    /\ \A k \in DOMAIN state : state[k] \in 0..255


\* 127.5 typed for r was rounded to the even neighbour 128 and the scale
\* of b was drawn to 0
C21_Witness ==
    /\ fn = "update_from_rgb"
    /\ ret = "returned"
    /\ events = 2
    /\ state = [r |-> 128, g |-> 86, b |-> 0]
    /\ controls.rgb.r.entry = Num(1280)
    /\ preview.hex = "#805600"

\* C22: updating is a re-entrancy guard.  A handle_entry or handle_scale
\* callback that arrives while update_from_rgb is in progress (updating is
\* TRUE) returns without changing state, any control, a label or updating
\* itself; updating is FALSE whenever no update_from_rgb is in progress,
\* and a callback that arrives then is not ignored.
C22_UpdatingGuardsReentry ==
    /\ [](frame.pc = "idle" => ~updating)
    /\ [][((fn' \in {"handle_entry", "handle_scale"})
             /\ (fn' # fn \/ args' # args \/ ret' # ret \/ events' # events))
          => /\ updating =>
                  /\ ret' = "ignored"
                  /\ UNCHANGED <<updating, state, controls, preview, events, frame>>
             /\ frame.pc = "idle" => ret' # "ignored"]_vars

\* the scale of a channel called back between the hls and the cmyk controls
\* being set, and was ignored
C22_Witness ==
    /\ fn = "handle_scale"
    /\ ret = "ignored"
    /\ updating
    /\ frame.pc = "cmyk"
    /\ state = [r |-> 0, g |-> 0, b |-> 0]
    /\ controls.hls.l.entry = Num(0)
    /\ controls.cmyk.k.entry # Num(1000)

====
